---- MODULE Spec2Model ----
(***************************************************************************)
(* Verification model of the FDA multi-agent runtime (white-dots/FDA).     *)
(*                                                                         *)
(* Part 1: the file-backed message bus, src/fda/comms/message_bus.py.      *)
(*                                                                         *)
(* The bus file is modelled by what is on disk: well-formed JSON holding a *)
(* list of messages, an empty file, or a proper prefix of the JSON text.   *)
(* Every caller (thread or process) opens its own handle, so flock()       *)
(* excludes callers from each other whether they are threads of one        *)
(* process or separate processes.  A handle opened with open(path, "r+")   *)
(* is buffered: json.dump() fills the buffer, and the buffer reaches the   *)
(* disk when it overflows or when the handle is closed.  _release_lock     *)
(* unlocks first and closes second, and the model keeps those two steps    *)
(* apart.                                                                  *)
(*                                                                         *)
(* Timestamps are datetime.now().isoformat() strings compared as strings;  *)
(* for one clock that order is the order of the instants, so a timestamp   *)
(* is modelled by the integer reading of the clock.  uuid4 identifiers are *)
(* modelled by a counter of fresh integers.                                *)
(***************************************************************************)
EXTENDS Integers, Sequences, FiniteSets, TLC

VARIABLES
    file,       \* the bus file on disk: [kind, msgs]
    lock,       \* the thread holding the flock on the bus file, or NoThread
    pc,         \* pc[t]: where thread t is inside a bus operation
    op,         \* op[t]: the arguments and locals of thread t's operation
    buf,        \* buf[t]: what json.dump left in t's handle buffer
    ret,        \* ret[t]: outcome of the last operation t finished
    now,        \* the wall clock
    nextId,     \* source of fresh message ids (uuid4)
    threads,    \* the threads that exist in this run
    visibleAt,  \* history: the sends that returned, and the clock reading then
    sentBefore, \* history: <<m, n>> if send of m had returned when send of n began
    loop,       \* loop[t]: the agent event loop run by thread t, if any
    state,      \* the ProjectState database: agent_status, tasks, file_index, code_routes
    scheduler,  \* the Scheduler object and the threads that use it
    journal     \* the journal directory on disk and the JournalIndex objects

vars == <<file, lock, pc, op, buf, ret, now, nextId, threads, visibleAt, sentBefore, loop,
          state, scheduler, journal>>

----------------------------------------------------------------------------
(* Bounds of the model *)

MaxClock == 1       \* clock readings 0..MaxClock
BufferMsgs == 1     \* a bus text of up to this many messages fits the handle buffer

\* the callers of the bus: threads, or processes, each with its own handle
AllThreads == {"t1", "t2", "t3"}
NoThread == "none"
NoId == 0           \* reply_to = None
UnknownId == 99     \* an id that no message in the bus carries
NoTime == -1        \* read_at absent

----------------------------------------------------------------------------
(* Agent names, message types (message_bus.py, classes Agents and          *)
(* MessageTypes)                                                           *)

FDA == "fda"
LIBRARIAN == "librarian"
EXECUTOR == "executor"

SEARCH_REQUEST == "search_request"
EXECUTE_REQUEST == "execute_request"
FILE_REQUEST == "file_request"
KNOWLEDGE_REQUEST == "knowledge_request"
CLAUDE_CODE_REQUEST == "claude_code_request"
SEARCH_RESULT == "search_result"
EXECUTE_RESULT == "execute_result"
FILE_COMPLETE == "file_complete"
KNOWLEDGE_RESULT == "knowledge_result"
CLAUDE_CODE_RESULT == "claude_code_result"
INDEX_REQUEST == "index_request"
STATUS_REQUEST == "status_request"
INDEX_COMPLETE == "index_complete"
STATUS_RESPONSE == "status_response"
TASK == "task"

\* str.lower() on the agent names in use
lower(name) ==
    CASE name = "Executor" -> "executor"
      [] name = "Librarian" -> "librarian"
      [] name = "FDA" -> "fda"
      [] OTHER -> name

----------------------------------------------------------------------------
(* Pure functions of the bus                                               *)

\* a deviation of priority_order: every priority ranks alike
priority_order_flat(priority) == 1

\* priority_order.get(m["priority"], 1) in get_pending
priority_order(priority) ==
    CASE priority = "high" -> 0
      [] priority = "medium" -> 1
      [] priority = "low" -> 2
      [] OTHER -> 1

\* Python's comparison of two key tuples of equal length (1 or 2)
TupleLess(a, b) ==
    \/ a[1] < b[1]
    \/ /\ Len(a) > 1
       /\ a[1] = b[1]
       /\ a[2] < b[2]

\* list.sort(key=...): stable, ascending.  keys[i] is the key of s[i].
sort(s, keys) ==
    LET n == Len(s)
        before(i, j) == \/ TupleLess(keys[i], keys[j])
                        \/ (~TupleLess(keys[j], keys[i]) /\ i < j)
        pos(i) == 1 + Cardinality({j \in 1..n : before(j, i)})
    IN  [k \in 1..n |-> s[CHOOSE i \in 1..n : pos(i) = k]]

\* the message dictionary built by send
Message(msg_id, from_agent, to_agent, msg_type, priority, timestamp, thread_id, reply_to) ==
    [id |-> msg_id, from |-> from_agent, to |-> to_agent, type |-> msg_type,
     priority |-> priority, timestamp |-> timestamp, read |-> FALSE,
     read_at |-> NoTime, thread_id |-> thread_id, reply_to |-> reply_to]

NoMessage == Message(NoId, "", "", "", "", 0, NoId, NoId)

\* index of the first message with the given id, 0 if there is none
\* (the "for msg in bus_data[...]: if msg[id] == ...: break" loops)
FirstWithId(msgs, msg_id) ==
    IF \E i \in 1..Len(msgs) : msgs[i].id = msg_id
    THEN CHOOSE i \in 1..Len(msgs) :
            /\ msgs[i].id = msg_id
            /\ \A j \in 1..(i - 1) : msgs[j].id # msg_id
    ELSE 0

\* a deviation of lookup_thread_id: the thread of a reply is its parent
lookup_reply_to(msgs, msg_id, reply_to) == reply_to

\* send: the thread_id lookup for a reply
lookup_thread_id(msgs, msg_id, reply_to) ==
    LET i == FirstWithId(msgs, reply_to)
    IN  IF i = 0 THEN msg_id ELSE msgs[i].thread_id

\* a deviation of get_pending: newest first within a priority
get_pending_newest_first(msgs, agent_name) ==
    LET pending == SelectSeq(msgs, LAMBDA m : m.to = agent_name /\ ~m.read)
        keys == [i \in 1..Len(pending) |->
                    <<priority_order(pending[i].priority), 0 - i>>]
    IN  sort(pending, keys)

\* get_pending: filter and sort
get_pending(msgs, agent_name) ==
    LET pending == SelectSeq(msgs, LAMBDA m : m.to = agent_name /\ ~m.read)
        keys == [i \in 1..Len(pending) |->
                    <<priority_order(pending[i].priority), pending[i].timestamp>>]
    IN  sort(pending, keys)

\* get_thread: the messages of the thread of msg_id, by timestamp
get_thread(msgs, msg_id) ==
    LET i == FirstWithId(msgs, msg_id)
    IN  IF i = 0 THEN <<>>
        ELSE LET thread_id == msgs[i].thread_id
                 thread_messages == SelectSeq(msgs, LAMBDA m : m.thread_id = thread_id)
                 keys == [k \in 1..Len(thread_messages) |-> <<thread_messages[k].timestamp>>]
             IN  sort(thread_messages, keys)

\* mark_read: the update of the message list
mark_read(msgs, msg_id, at) ==
    LET i == FirstWithId(msgs, msg_id)
    IN  IF i = 0 THEN msgs
        ELSE [msgs EXCEPT ![i] = [@ EXCEPT !.read = TRUE, !.read_at = at]]

\* cleanup_old_messages: the messages kept
cleanup_old_messages(msgs, cutoff) ==
    SelectSeq(msgs, LAMBDA m : m.timestamp >= cutoff)

----------------------------------------------------------------------------
(* The bus file and the callers' handles                                   *)

\* a bus file holding well-formed JSON with these messages
Json(msgs) == [kind |-> "json", msgs |-> msgs]

\* _initialize_bus: {"messages": [], "created_at": ...}
_initialize_bus == Json(<<>>)

\* json.load(fh) returns iff the whole text is on disk; it raises
\* JSONDecodeError on an empty file and on a proper prefix of the text
json_load_ok(f) == f.kind = "json"

\* fh.seek(0); fh.truncate(); json.dump(bus_data, fh, indent=2): what is on
\* disk while the handle is still open.  truncate() empties the file at once;
\* the dumped text stays in the handle buffer unless it overflows it.
truncate_and_dump(msgs) ==
    IF Len(msgs) <= BufferMsgs
    THEN [kind |-> "empty", msgs |-> <<>>]
    ELSE [kind |-> "partial", msgs |-> <<>>]

NoBuffer == [dirty |-> FALSE, msgs |-> <<>>]

\* a deviation of finally_release: the lock is kept when the body raises
no_release(holder, t) == holder

\* the finally: clause of an operation whose body raised: _release_lock(fh)
finally_release(holder, t) == IF holder = t THEN NoThread ELSE holder

\* fcntl.flock(fh.fileno(), fcntl.LOCK_UN) in _release_lock
flock_un(holder, t) == IF holder = t THEN NoThread ELSE holder

\* the arguments and locals of an operation; loaded is what json.load
\* returned, bus_data the list that was dumped, locked_at the clock reading
\* when flock(LOCK_EX) returned
IdleOp ==
    [name |-> "none", msg |-> NoMessage, msg_id |-> NoId, agent_name |-> "",
     cutoff |-> 0, start_time |-> 0, timeout |-> 0, poll_interval |-> 0, wake |-> 0,
     dumped |-> FALSE, loaded |-> <<>>, bus_data |-> <<>>, locked_at |-> NoTime]

\* outcome of an operation: raised, or the returned list / the returned value
NoRet == [raised |-> FALSE, msgs |-> <<>>, value |-> NoId]
Raised == [raised |-> TRUE, msgs |-> <<>>, value |-> NoId]

\* program points at which a caller is blocked in flock(LOCK_EX)
LockWait ==
    {"send_lookup_lock", "send_lock", "mark_read_lock", "cleanup_lock",
     "get_pending_lock", "get_thread_lock", "wait_lock"}

\* the program point reached once the lock is granted
Locked(point) ==
    CASE point = "send_lookup_lock" -> "send_lookup"
      [] point = "send_lock" -> "send_write"
      [] point = "mark_read_lock" -> "mark_read_write"
      [] point = "cleanup_lock" -> "cleanup_write"
      [] point = "get_pending_lock" -> "get_pending_read"
      [] point = "get_thread_lock" -> "get_thread_read"
      [] point = "wait_lock" -> "wait_read"

\* program points inside a critical section (between flock LOCK_EX and LOCK_UN)
Critical ==
    {"send_lookup", "send_write", "mark_read_write", "cleanup_write",
     "get_pending_read", "get_thread_read", "wait_read", "unlock"}

ids(msgs) == {msgs[i].id : i \in 1..Len(msgs)}

----------------------------------------------------------------------------
(* Steps shared by all operations                                          *)

\* _acquire_lock: open(path, "r+") and a blocking flock(LOCK_EX)
_acquire_lock(t) ==
    /\ t \in threads
    /\ pc[t] \in LockWait
    /\ lock = NoThread
    /\ lock' = t
    /\ pc' = [pc EXCEPT ![t] = Locked(pc[t])]
    /\ op' = [op EXCEPT ![t].locked_at = now]
    /\ UNCHANGED <<file, buf, ret, now, nextId, threads, state, scheduler, journal, visibleAt, sentBefore, loop>>

\* _release_lock, first statement: the unlock of a writer that has dumped
_release_lock_unlock(t) ==
    /\ t \in threads
    /\ pc[t] = "unlock"
    /\ lock' = flock_un(lock, t)
    /\ pc' = [pc EXCEPT ![t] = "close"]
    /\ UNCHANGED <<file, op, buf, ret, now, nextId, threads, state, scheduler, journal, visibleAt, sentBefore, loop>>

\* _release_lock, second statement: fh.close() flushes the handle buffer;
\* then the operation returns
_release_lock_close(t) ==
    /\ t \in threads
    /\ pc[t] = "close"
    /\ file' = IF buf[t].dirty THEN Json(buf[t].msgs) ELSE file
    /\ buf' = [buf EXCEPT ![t] = NoBuffer]
    /\ pc' = [pc EXCEPT ![t] = "idle"]
    /\ ret' = [ret EXCEPT ![t] = [NoRet EXCEPT !.value = op[t].msg_id]]
    /\ visibleAt' = IF op[t].name = "send"
                    THEN visibleAt \cup {[id |-> op[t].msg_id, at |-> now, by |-> t,
                                           to |-> op[t].msg.to,
                                           reply_to |-> op[t].msg.reply_to]}
                    ELSE visibleAt
    /\ op' = [op EXCEPT ![t] = IdleOp]
    /\ UNCHANGED <<lock, now, nextId, threads, state, scheduler, journal, sentBefore, loop>>

\* the body of an operation raised inside try: the finally clause releases
\* the lock and the exception leaves the operation (its locals are gone)
RaiseInCritical(t) ==
    /\ lock' = finally_release(lock, t)
    /\ pc' = [pc EXCEPT ![t] = "idle"]
    /\ ret' = [ret EXCEPT ![t] = Raised]
    /\ op' = [op EXCEPT ![t] = IdleOp]
    /\ UNCHANGED <<file, buf, now, nextId, threads, state, scheduler, journal, visibleAt, sentBefore, loop>>

\* the body of a writer ran: the new list is dumped into the handle
DumpInCritical(t, msgs) ==
    /\ file' = truncate_and_dump(msgs)
    /\ buf' = [buf EXCEPT ![t] = [dirty |-> TRUE, msgs |-> msgs]]
    /\ pc' = [pc EXCEPT ![t] = "unlock"]
    /\ op' = [op EXCEPT ![t].dumped = TRUE, ![t].loaded = file.msgs, ![t].bus_data = msgs]
    /\ UNCHANGED <<lock, ret, now, nextId, threads, state, scheduler, journal, visibleAt, sentBefore, loop>>

\* the wall clock advances
Tick ==
    /\ now' = now + 1
    /\ UNCHANGED <<file, lock, pc, op, buf, ret, nextId, threads, state, scheduler, journal, visibleAt, sentBefore, loop>>

----------------------------------------------------------------------------
(* send                                                                    *)

\* send, lines 137-142 and 154-166: fresh id, timestamp, the message
send_call(t, from_agent, to_agent, msg_type, priority, reply_to) ==
    /\ t \in threads
    /\ pc[t] = "idle"
    /\ nextId' = nextId + 1
    /\ op' = [op EXCEPT ![t] =
                [IdleOp EXCEPT !.name = "send", !.msg_id = nextId,
                    !.msg = Message(nextId, from_agent, to_agent, msg_type,
                                    priority, now, nextId, reply_to)]]
    /\ pc' = [pc EXCEPT ![t] = IF reply_to # NoId THEN "send_lookup_lock" ELSE "send_lock"]
    /\ ret' = [ret EXCEPT ![t] = NoRet]
    /\ sentBefore' = sentBefore \cup {<<v.id, nextId>> : v \in visibleAt}
    /\ UNCHANGED <<file, lock, buf, now, threads, scheduler, journal, visibleAt>>

\* send, lines 144-152: the thread_id lookup of a reply, in a critical
\* section of its own
send_lookup(t) ==
    /\ t \in threads
    /\ pc[t] = "send_lookup"
    /\ IF json_load_ok(file)
       THEN /\ op' = [op EXCEPT ![t].msg.thread_id =
                        lookup_thread_id(file.msgs, op[t].msg_id, op[t].msg.reply_to)]
            /\ lock' = flock_un(lock, t)
            /\ pc' = [pc EXCEPT ![t] = "send_lock"]
            /\ UNCHANGED <<file, buf, ret, now, nextId, threads, state, scheduler, journal, visibleAt, sentBefore, loop>>
       ELSE RaiseInCritical(t)

\* send, lines 168-175: read, append, truncate, dump
send_write(t) ==
    /\ t \in threads
    /\ pc[t] = "send_write"
    /\ IF json_load_ok(file)
       THEN DumpInCritical(t, Append(file.msgs, op[t].msg))
       ELSE RaiseInCritical(t)

----------------------------------------------------------------------------
(* mark_read, cleanup_old_messages                                         *)

mark_read_call(t, msg_id) ==
    /\ t \in threads
    /\ pc[t] = "idle"
    /\ op' = [op EXCEPT ![t] = [IdleOp EXCEPT !.name = "mark_read", !.msg_id = msg_id]]
    /\ pc' = [pc EXCEPT ![t] = "mark_read_lock"]
    /\ ret' = [ret EXCEPT ![t] = NoRet]
    /\ UNCHANGED <<file, lock, buf, now, nextId, threads, scheduler, journal, visibleAt, sentBefore>>

\* mark_read, lines 244-253
mark_read_write(t) ==
    /\ t \in threads
    /\ pc[t] = "mark_read_write"
    /\ IF json_load_ok(file)
       THEN DumpInCritical(t, mark_read(file.msgs, op[t].msg_id, now))
       ELSE RaiseInCritical(t)

\* cleanup_old_messages, lines 329-330: the cutoff is computed before the lock
cleanup_call(t, days) ==
    /\ t \in threads
    /\ pc[t] = "idle"
    /\ op' = [op EXCEPT ![t] = [IdleOp EXCEPT !.name = "cleanup_old_messages",
                                               !.cutoff = now - days]]
    /\ pc' = [pc EXCEPT ![t] = "cleanup_lock"]
    /\ ret' = [ret EXCEPT ![t] = NoRet]
    /\ UNCHANGED <<file, lock, buf, now, nextId, threads, scheduler, journal, visibleAt, sentBefore>>

\* cleanup_old_messages, lines 334-345
cleanup_write(t) ==
    /\ t \in threads
    /\ pc[t] = "cleanup_write"
    /\ IF json_load_ok(file)
       THEN DumpInCritical(t, cleanup_old_messages(file.msgs, op[t].cutoff))
       ELSE RaiseInCritical(t)

----------------------------------------------------------------------------
(* get_pending, get_thread                                                 *)

get_pending_call(t, agent_name) ==
    /\ t \in threads
    /\ pc[t] = "idle"
    /\ op' = [op EXCEPT ![t] = [IdleOp EXCEPT !.name = "get_pending",
                                               !.agent_name = agent_name]]
    /\ pc' = [pc EXCEPT ![t] = "get_pending_lock"]
    /\ ret' = [ret EXCEPT ![t] = NoRet]
    /\ UNCHANGED <<file, lock, buf, now, nextId, threads, scheduler, journal, visibleAt, sentBefore>>

\* get_pending, lines 192-210: load under the lock, release, filter, sort
get_pending_read(t) ==
    /\ t \in threads
    /\ pc[t] = "get_pending_read"
    /\ IF json_load_ok(file)
       THEN /\ lock' = flock_un(lock, t)
            /\ pc' = [pc EXCEPT ![t] = "idle"]
            /\ ret' = [ret EXCEPT ![t] =
                        [NoRet EXCEPT !.msgs = get_pending(file.msgs, op[t].agent_name)]]
            /\ op' = [op EXCEPT ![t] = IdleOp]
            /\ UNCHANGED <<file, buf, now, nextId, threads, state, scheduler, journal, visibleAt, sentBefore, loop>>
       ELSE RaiseInCritical(t)

get_thread_call(t, msg_id) ==
    /\ t \in threads
    /\ pc[t] = "idle"
    /\ op' = [op EXCEPT ![t] = [IdleOp EXCEPT !.name = "get_thread", !.msg_id = msg_id]]
    /\ pc' = [pc EXCEPT ![t] = "get_thread_lock"]
    /\ ret' = [ret EXCEPT ![t] = NoRet]
    /\ UNCHANGED <<file, lock, buf, now, nextId, threads, scheduler, journal, visibleAt, sentBefore>>

\* get_thread, lines 267-294
get_thread_read(t) ==
    /\ t \in threads
    /\ pc[t] = "get_thread_read"
    /\ IF json_load_ok(file)
       THEN /\ lock' = flock_un(lock, t)
            /\ pc' = [pc EXCEPT ![t] = "idle"]
            /\ ret' = [ret EXCEPT ![t] =
                        [NoRet EXCEPT !.msgs = get_thread(file.msgs, op[t].msg_id)]]
            /\ op' = [op EXCEPT ![t] = IdleOp]
            /\ UNCHANGED <<file, buf, now, nextId, threads, state, scheduler, journal, visibleAt, sentBefore, loop>>
       ELSE RaiseInCritical(t)

----------------------------------------------------------------------------
(* wait_for_response                                                       *)

\* wait_for_response, lines 655-656: start_time, and the first loop test
wait_call(t, agent_name, request_id, timeout_seconds, poll_interval) ==
    /\ t \in threads
    /\ pc[t] = "idle"
    /\ op' = [op EXCEPT ![t] =
                [IdleOp EXCEPT !.name = "wait_for_response", !.agent_name = agent_name,
                    !.msg_id = request_id, !.start_time = now,
                    !.timeout = timeout_seconds, !.poll_interval = poll_interval]]
    /\ pc' = [pc EXCEPT ![t] = IF 0 < timeout_seconds THEN "wait_lock"
                                                      ELSE "wait_return_none"]
    /\ ret' = [ret EXCEPT ![t] = NoRet]
    /\ UNCHANGED <<file, lock, buf, now, nextId, threads, scheduler, journal, visibleAt, sentBefore>>

\* wait_for_response, lines 658-662: get_pending, the scan for the reply,
\* and the start of time.sleep(poll_interval)
wait_read(t) ==
    /\ t \in threads
    /\ pc[t] = "wait_read"
    /\ IF json_load_ok(file)
       THEN LET pending == get_pending(file.msgs, op[t].agent_name)
                replies == SelectSeq(pending, LAMBDA m : m.reply_to = op[t].msg_id)
            IN  /\ lock' = flock_un(lock, t)
                /\ IF replies # <<>>
                   THEN /\ pc' = [pc EXCEPT ![t] = "idle"]
                        /\ ret' = [ret EXCEPT ![t] =
                                    [NoRet EXCEPT !.msgs = <<Head(replies)>>,
                                                  !.value = Head(replies).id]]
                        /\ op' = [op EXCEPT ![t] = IdleOp]
                   ELSE /\ pc' = [pc EXCEPT ![t] = "wait_sleep"]
                        /\ op' = [op EXCEPT ![t].wake = now + op[t].poll_interval]
                        /\ UNCHANGED ret
                /\ UNCHANGED <<file, buf, now, nextId, threads, state, scheduler, journal, visibleAt, sentBefore, loop>>
       ELSE RaiseInCritical(t)

\* wait_for_response, lines 662 and 656: time.sleep returns no earlier than
\* asked, then the loop test
wait_sleep(t) ==
    /\ t \in threads
    /\ pc[t] = "wait_sleep"
    /\ now >= op[t].wake
    /\ pc' = [pc EXCEPT ![t] = IF now - op[t].start_time < op[t].timeout
                               THEN "wait_lock" ELSE "wait_return_none"]
    /\ UNCHANGED <<file, lock, op, buf, ret, now, nextId, threads, state, scheduler, journal, visibleAt, sentBefore, loop>>

\* wait_for_response, line 664: return None
wait_return_none(t) ==
    /\ t \in threads
    /\ pc[t] = "wait_return_none"
    /\ pc' = [pc EXCEPT ![t] = "idle"]
    /\ op' = [op EXCEPT ![t] = IdleOp]
    /\ ret' = [ret EXCEPT ![t] = NoRet]
    /\ UNCHANGED <<file, lock, buf, now, nextId, threads, state, scheduler, journal, visibleAt, sentBefore, loop>>

----------------------------------------------------------------------------
(* A crash of the calling process                                          *)

\* the process of t dies inside a bus operation: the kernel drops its flock,
\* the text still in its handle buffer is lost, the file stays as it is
Crash(t) ==
    /\ t \in threads
    /\ pc[t] \notin {"idle", "crashed"}
    /\ pc' = [pc EXCEPT ![t] = "crashed"]
    /\ lock' = IF lock = t THEN NoThread ELSE lock
    /\ buf' = [buf EXCEPT ![t] = NoBuffer]
    /\ UNCHANGED <<file, op, ret, now, nextId, threads, state, scheduler, journal, visibleAt, sentBefore, loop>>

\* the process is started again: MessageBus.__init__ finds the file present
Restart(t) ==
    /\ t \in threads
    /\ pc[t] = "crashed"
    /\ pc' = [pc EXCEPT ![t] = "idle"]
    /\ op' = [op EXCEPT ![t] = IdleOp]
    /\ ret' = [ret EXCEPT ![t] = NoRet]
    /\ UNCHANGED <<file, lock, buf, now, nextId, threads, state, scheduler, journal, visibleAt, sentBefore, loop>>

----------------------------------------------------------------------------
(* Request helpers of the bus, BaseAgent.send_message                      *)

request_search(t, from_agent, priority) ==
    send_call(t, from_agent, LIBRARIAN, SEARCH_REQUEST, priority, NoId)

request_execute(t, from_agent, priority) ==
    send_call(t, from_agent, EXECUTOR, EXECUTE_REQUEST, priority, NoId)

request_file_operation(t, from_agent, priority) ==
    send_call(t, from_agent, EXECUTOR, FILE_REQUEST, priority, NoId)

request_knowledge(t, from_agent, priority) ==
    send_call(t, from_agent, LIBRARIAN, KNOWLEDGE_REQUEST, priority, NoId)

request_claude_code(t, from_agent, priority) ==
    send_call(t, from_agent, EXECUTOR, CLAUDE_CODE_REQUEST, priority, NoId)

send_result(t, from_agent, to_agent, msg_type, reply_to) ==
    send_call(t, from_agent, to_agent, msg_type, "medium", reply_to)

\* BaseAgent.send_message of the agent named name: from_agent = self.name
send_message(t, name, to_agent, msg_type, priority) ==
    send_call(t, name, to_agent, msg_type, priority, NoId)

----------------------------------------------------------------------------
(* The state store (src/fda/state/project_state.py) and the scheduler      *)
(* object (src/fda/scheduler.py) as they are after construction           *)

\* the agent_status rows the agents write (self.name.lower())
AgentRows == {"fda", "librarian", "executor"}

\* ProjectState.init_db: CREATE TABLE IF NOT EXISTS on a new database; every
\* table is empty ("absent": no agent_status row for the agent)
init_db ==
    [agent_status |-> [n \in AgentRows |-> "absent"],
     tasks |-> <<>>,
     file_index |-> <<>>,
     code_routes |-> <<>>,
     discoveries |-> <<>>,
     alerts |-> <<>>]

\* ProjectState.update_agent_status: upsert of the agent's row
update_agent_status(db, agent_name, status) ==
    [db EXCEPT !.agent_status[agent_name] = status]

\* the names under which tasks are registered with the scheduler
PeriodicNames == {"daily_checkin", "calendar_watcher"}

OneTimeNames == {"once"}

TaskNames == PeriodicNames \cup OneTimeNames

\* Scheduler.__init__: no timers, no tasks, not running, event clear, lock
\* free; no thread is inside run() or stop(), no Timer object exists.
\* order is the insertion order of self.tasks; resized tells that self.tasks
\* grew while run() iterates over it; calls counts the invocations of the
\* callback of the current registration of a one-time task; unregistered
\* tells that unregister_task(name) returned and name was not registered since
Scheduler_init ==
    [timers |-> {},
     tasks |-> [n \in TaskNames |-> "none"],
     _running |-> FALSE,
     _stop_event |-> FALSE,
     _lock |-> NoThread,
     timer |-> [n \in OneTimeNames |-> "none"],
     run_pc |-> "idle",
     stop_pc |-> "idle",
     todo |-> <<>>,
     order |-> <<>>,
     resized |-> FALSE,
     calls |-> [n \in OneTimeNames |-> 0],
     unregistered |-> [n \in TaskNames |-> FALSE]]

\* the journal (src/fda/journal): the entry files the model writes, the
\* JournalIndex objects on the index file (i1 of an agent's JournalWriter; i2
\* a second one, of another agent's writer or of the agent's own
\* JournalRetriever), and the versions that tell one content of a file from
\* another
Filenames == {"2026-01-01_10-00-00_a.md", "2026-01-01_10-00-00_b.md"}
IndexObjects == {"i1", "i2"}
MaxVersion == 2
Versions == 1..MaxVersion

\* a journal directory nothing was written to and JournalIndex.__init__ on
\* it: no entry file, no index.json, self.entries = [].  A file is
\* "missing", "complete" (everything a write put into it) or "truncated"
\* (opened for writing, its content not or partly there); at is the
\* position of the object's caller inside write_entry / add_entry /
\* remove_entry; call holds the arguments of that call; last names the
\* object whose mutation returned last
Journal_init ==
    [entry_files |-> [f \in Filenames |-> [kind |-> "missing", version |-> 0]],
     index_file |-> [kind |-> "missing", entries |-> <<>>, count |-> 0],
     index |-> [o \in IndexObjects |->
                  [entries |-> <<>>, at |-> "idle",
                   call |-> [name |-> "none", filename |-> "none", version |-> 0,
                            existing |-> FALSE]]],
     last |-> "none"]

----------------------------------------------------------------------------
(* The event loop of a peer agent (ExecutorAgent, LibrarianAgent)          *)

\* self.name of the peers
PeerNames == {"Executor", "Librarian"}

\* the request types a peer's _handle_message dispatches to a handler
RequestTypes(name) ==
    CASE name = "Executor" ->
            {EXECUTE_REQUEST, FILE_REQUEST, STATUS_REQUEST, CLAUDE_CODE_REQUEST}
      [] name = "Librarian" ->
            {SEARCH_REQUEST, INDEX_REQUEST, KNOWLEDGE_REQUEST, STATUS_REQUEST}
      [] OTHER -> {}

\* the type of the result the handler of a request type sends
ResultType(msg_type) ==
    CASE msg_type = EXECUTE_REQUEST -> EXECUTE_RESULT
      [] msg_type = FILE_REQUEST -> FILE_COMPLETE
      [] msg_type = CLAUDE_CODE_REQUEST -> CLAUDE_CODE_RESULT
      [] msg_type = SEARCH_REQUEST -> SEARCH_RESULT
      [] msg_type = INDEX_REQUEST -> INDEX_COMPLETE
      [] msg_type = KNOWLEDGE_REQUEST -> KNOWLEDGE_RESULT
      [] msg_type = STATUS_REQUEST -> STATUS_RESPONSE
      [] OTHER -> ""

\* the type of the result sent by the except clause of _handle_message
ErrorResultType(name) ==
    IF name = "Executor" THEN EXECUTE_RESULT ELSE SEARCH_RESULT

\* a loop step that touches no bus variable
LoopOnly ==
    UNCHANGED <<file, lock, pc, op, buf, ret, now, nextId, threads, state, scheduler, journal, visibleAt, sentBefore>>

\* a loop step that writes the agent's status row and touches no bus variable
LoopStatus(t, status) ==
    /\ state' = update_agent_status(state, lower(loop[t].name), status)
    /\ UNCHANGED <<file, lock, pc, op, buf, ret, now, nextId, threads, scheduler, journal, visibleAt, sentBefore>>

\* an event loop whose "while self._running" test never fails
agent_while_forever(t) ==
    /\ loop[t].at = "top"
    /\ loop' = [loop EXCEPT ![t].at = "try"]
    /\ LoopStatus(t, "running")

\* BaseAgent.start: self._running = True, then run_event_loop, which begins
\* with update_agent_status(self.name.lower(), "running", "Starting up")
start(t) ==
    /\ loop[t].at = "start"
    /\ loop' = [loop EXCEPT ![t] = [@ EXCEPT !._running = TRUE, !.at = "top"]]
    /\ LoopStatus(t, "running")

\* BaseAgent.stop, called by another thread on the agent object whose loop
\* thread t runs
stop(t) ==
    /\ loop[t].at \notin {"none", "start", "stopped"}
    /\ loop[t]._running
    /\ loop' = [loop EXCEPT ![t]._running = FALSE]
    /\ LoopOnly

\* run_event_loop: "while self._running:"; a new iteration begins with the
\* heartbeat and update_agent_status(..., "running"); after the loop
\* update_agent_status(..., "stopped")
agent_while(t) ==
    /\ loop[t].at = "top"
    /\ IF loop[t]._running
       THEN /\ loop' = [loop EXCEPT ![t].at = "try"]
            /\ LoopStatus(t, "running")
       ELSE /\ loop' = [loop EXCEPT ![t].at = "stopped"]
            /\ LoopStatus(t, "stopped")

\* run_event_loop: messages = self.get_pending_messages(), which is
\* message_bus.get_pending(self.name)
agent_poll(t) ==
    /\ loop[t].at = "try"
    /\ get_pending_call(t, loop[t].name)
    /\ loop' = [loop EXCEPT ![t].at = "polling"]
    /\ UNCHANGED state

\* get_pending returned the messages, or raised into the loop's
\* "except Exception" clause
agent_polled(t) ==
    /\ loop[t].at = "polling"
    /\ pc[t] = "idle"
    /\ loop' = [loop EXCEPT ![t] =
                    IF ret[t].raised
                    THEN [@ EXCEPT !.at = "top", !.inbox = <<>>]
                    ELSE [@ EXCEPT !.at = "for", !.inbox = ret[t].msgs]]
    /\ LoopOnly

\* for message in messages: _handle_message begins with mark_read(msg_id);
\* after the last message the loop sleeps and starts over
agent_for(t) ==
    /\ loop[t].at = "for"
    /\ pc[t] = "idle"
    /\ IF loop[t].inbox = <<>>
       THEN /\ loop' = [loop EXCEPT ![t].at = "top"]
            /\ LoopOnly
       ELSE /\ mark_read_call(t, Head(loop[t].inbox).id)
            /\ loop' = [loop EXCEPT ![t].at = "marking"]
            /\ UNCHANGED state

\* _handle_message after mark_read: the status becomes "busy", then the
\* dispatch on the type.  A handler either sends its result or raises before
\* it does, and then the except clause sends the error result.  A message of
\* another type is handled without a reply, and the status is reset to
\* "running".  An exception of mark_read leaves the for loop.
agent_dispatch(t) ==
    /\ loop[t].at = "marking"
    /\ pc[t] = "idle"
    /\ LET message == Head(loop[t].inbox)
           name == loop[t].name
           busy == update_agent_status(state, lower(name), "busy")
       IN  IF ret[t].raised
           THEN /\ loop' = [loop EXCEPT ![t] = [@ EXCEPT !.at = "top", !.inbox = <<>>]]
                /\ LoopOnly
           ELSE IF message.type \in RequestTypes(name)
           THEN \/ /\ send_result(t, lower(name), lower(message.from),
                                  ResultType(message.type), message.id)
                   /\ loop' = [loop EXCEPT ![t].at = "replying"]
                   /\ state' = busy
                \/ /\ send_result(t, lower(name), lower(message.from),
                                  ErrorResultType(name), message.id)
                   /\ loop' = [loop EXCEPT ![t].at = "replying_error"]
                   /\ state' = busy
           ELSE /\ loop' = [loop EXCEPT ![t] =
                               [@ EXCEPT !.at = "for", !.inbox = Tail(@)]]
                /\ LoopStatus(t, "running")

\* the handler's send_result returned, or raised into the except clause of
\* _handle_message, which sends the error result
agent_replied(t) ==
    /\ loop[t].at = "replying"
    /\ pc[t] = "idle"
    /\ IF ret[t].raised
       THEN /\ send_result(t, lower(loop[t].name), lower(Head(loop[t].inbox).from),
                           ErrorResultType(loop[t].name), Head(loop[t].inbox).id)
            /\ loop' = [loop EXCEPT ![t].at = "replying_error"]
            /\ UNCHANGED state
       ELSE /\ loop' = [loop EXCEPT ![t] = [@ EXCEPT !.at = "for", !.inbox = Tail(@)]]
            /\ LoopStatus(t, "running")

\* the send_result of the except clause returned and the status is reset to
\* "running", or it raised out of _handle_message into the loop's
\* "except Exception" clause
agent_replied_error(t) ==
    /\ loop[t].at = "replying_error"
    /\ pc[t] = "idle"
    /\ IF ret[t].raised
       THEN /\ loop' = [loop EXCEPT ![t] = [@ EXCEPT !.at = "top", !.inbox = <<>>]]
            /\ LoopOnly
       ELSE /\ loop' = [loop EXCEPT ![t] = [@ EXCEPT !.at = "for", !.inbox = Tail(@)]]
            /\ LoopStatus(t, "running")

----------------------------------------------------------------------------
(* Initial state: MessageBus.__init__ has created the bus file             *)

\* a thread that runs no agent event loop
NoLoop == [name |-> "", at |-> "none", inbox |-> <<>>, _running |-> FALSE]

InitBus(T) ==
    /\ file = _initialize_bus
    /\ lock = NoThread
    /\ threads = T
    /\ pc = [t \in AllThreads |-> "idle"]
    /\ op = [t \in AllThreads |-> IdleOp]
    /\ buf = [t \in AllThreads |-> NoBuffer]
    /\ ret = [t \in AllThreads |-> NoRet]
    /\ now = 0
    /\ nextId = 1
    /\ visibleAt = {}
    /\ sentBefore = {}

\* callers that run no agent event loop
InitWith(T) ==
    /\ InitBus(T)
    /\ loop = [t \in AllThreads |-> NoLoop]
    /\ state = init_db
    /\ scheduler = Scheduler_init
    /\ journal = Journal_init

Priorities == {"high", "medium", "low"}

----------------------------------------------------------------------------
(* SpecSend: send calls interleaved across threads                          *)

SendMsgs == 3

InitSend == InitWith({"t1", "t2"})

NextSend ==
    \/ \E t \in AllThreads :
        \/ /\ nextId <= SendMsgs
           /\ \E reply_to \in {NoId} \cup ids(file.msgs) :
                send_call(t, FDA, EXECUTOR, TASK, "medium", reply_to) /\ UNCHANGED <<loop, state>>
        \/ _acquire_lock(t)
        \/ send_lookup(t)
        \/ send_write(t)
        \/ _release_lock_unlock(t)
        \/ _release_lock_close(t)
    \/ (now < MaxClock /\ Tick)

SpecSend == InitSend /\ [][NextSend]_vars

Quiescent == \A t \in threads : pc[t] = "idle"

\* C1: once the send calls issued so far have all finished, the bus file is
\* well-formed JSON whose message list holds each sent message exactly once
\* (none lost, none duplicated), with distinct ids.
C1_BusDurability ==
    Quiescent =>
        /\ file.kind = "json"
        /\ ids(file.msgs) = 1..(nextId - 1)
        /\ Len(file.msgs) = nextId - 1

----------------------------------------------------------------------------
(* SpecPending: one caller sends, polls get_pending and marks read         *)

PendingMsgs == 4

InitPending == InitWith({"t1"})

NextPending ==
    \/ \E t \in AllThreads :
        \/ /\ nextId <= PendingMsgs
           /\ \E priority \in Priorities :
                send_call(t, FDA, EXECUTOR, TASK, priority, NoId) /\ UNCHANGED <<loop, state>>
        \/ /\ nextId <= PendingMsgs
           /\ send_call(t, FDA, LIBRARIAN, TASK, "medium", NoId) /\ UNCHANGED <<loop, state>>
        \/ \E i \in 1..Len(ret[t].msgs) :
                mark_read_call(t, ret[t].msgs[i].id) /\ UNCHANGED <<loop, state>>
        \/ \E agent_name \in {EXECUTOR, LIBRARIAN} :
                get_pending_call(t, agent_name) /\ UNCHANGED <<loop, state>>
        \/ _acquire_lock(t)
        \/ send_write(t)
        \/ mark_read_write(t)
        \/ get_pending_read(t)
        \/ _release_lock_unlock(t)
        \/ _release_lock_close(t)
    \/ (now < MaxClock /\ Tick)

SpecPending == InitPending /\ [][NextPending]_vars

\* C3: whenever get_pending(agent) returns, the list returned holds exactly
\* the messages of the bus whose `to` is agent and whose `read` flag is false,
\* each once, ordered by priority rank ascending (high=0, medium=1, low=2)
\* and within equal rank by timestamp ascending; and messages A:medium,
\* B:high, C:medium, D:low sent in that order to one recipient come back as
\* [B, A, C, D].
C3_PendingFilterOrder ==
    [][\A t \in AllThreads :
        (pc[t] = "get_pending_read" /\ pc'[t] = "idle" /\ ~ret'[t].raised) =>
            LET r == ret'[t].msgs
                msgs == file.msgs
                agent == op[t].agent_name
                rank(m) == IF m.priority = "high" THEN 0
                           ELSE IF m.priority = "medium" THEN 1 ELSE 2
                wanted == {k \in 1..Len(msgs) : msgs[k].to = agent /\ ~msgs[k].read}
            IN  /\ Len(r) = Cardinality(wanted)
                /\ \A k \in wanted : \E i \in 1..Len(r) : r[i] = msgs[k]
                /\ \A i \in 1..Len(r) : \E k \in wanted : r[i] = msgs[k]
                /\ \A i, j \in 1..Len(r) :
                     i < j => \/ rank(r[i]) < rank(r[j])
                              \/ /\ rank(r[i]) = rank(r[j])
                                 /\ r[i].timestamp <= r[j].timestamp
                /\ ( /\ Len(msgs) = 4
                     /\ wanted = 1..4
                     /\ [k \in 1..4 |-> msgs[k].priority] = <<"medium", "high", "medium", "low">>
                     /\ [k \in 1..4 |-> msgs[k].id] = <<1, 2, 3, 4>> )
                   => [i \in 1..Len(r) |-> r[i].id] = <<2, 1, 3, 4>>]_vars

\* C3 witness: get_pending has returned [B, A, C, D] for A:medium, B:high,
\* C:medium, D:low sent in that order
C3_Witness ==
    \E t \in threads :
        /\ pc[t] = "idle"
        /\ Len(ret[t].msgs) = 4
        /\ [i \in 1..4 |-> ret[t].msgs[i].id] = <<2, 1, 3, 4>>
        /\ [i \in 1..4 |-> ret[t].msgs[i].priority] = <<"high", "medium", "medium", "low">>
        /\ \A i \in 1..4 : ret[t].msgs[i].to = EXECUTOR /\ ~ret[t].msgs[i].read

----------------------------------------------------------------------------
(* SpecOrder: two callers send under one sender name, a third polls        *)

OrderMsgs == 2

InitOrder == InitWith({"t1", "t2", "t3"})

NextOrder ==
    \/ \E t \in {"t1", "t2"} :
        /\ nextId <= OrderMsgs
        /\ \E priority \in {"high", "medium"} :
            send_call(t, FDA, EXECUTOR, TASK, priority, NoId) /\ UNCHANGED <<loop, state>>
    \/ get_pending_call("t3", EXECUTOR) /\ UNCHANGED <<loop, state>>
    \/ \E t \in AllThreads :
        \/ _acquire_lock(t)
        \/ send_write(t)
        \/ get_pending_read(t)
        \/ _release_lock_unlock(t)
        \/ _release_lock_close(t)
    \/ (now < MaxClock /\ Tick)

SpecOrder == InitOrder /\ [][NextOrder]_vars

\* C4: for M1 and M2 of one sender to one recipient, the send of M1 having
\* returned before the send of M2 began (also when the two sends were issued
\* by different threads or processes), every get_pending of the recipient
\* that returns M2 while M1 is unread returns M1 ahead of it, unless M2 has
\* strictly higher priority.
C4_SenderOrder ==
    [][\A t \in AllThreads :
        (pc[t] = "get_pending_read" /\ pc'[t] = "idle" /\ ~ret'[t].raised) =>
            LET r == ret'[t].msgs
                msgs == file.msgs
                rank(m) == IF m.priority = "high" THEN 0
                           ELSE IF m.priority = "medium" THEN 1 ELSE 2
            IN  \A j \in 1..Len(r), k \in 1..Len(msgs) :
                    ( /\ <<msgs[k].id, r[j].id>> \in sentBefore
                      /\ msgs[k].from = r[j].from
                      /\ msgs[k].to = r[j].to
                      /\ ~msgs[k].read
                      /\ ~(rank(r[j]) < rank(msgs[k])) )
                    => \E i \in 1..(j - 1) : r[i].id = msgs[k].id]_vars

\* C4 witness: a poll has returned M1 ahead of M2, of equal priority, where
\* M1 and M2 were sent one after the other by different threads
C4_Witness ==
    \E t \in threads :
        /\ pc[t] = "idle"
        /\ \E i, j \in 1..Len(ret[t].msgs) :
            /\ i < j
            /\ <<ret[t].msgs[i].id, ret[t].msgs[j].id>> \in sentBefore
            /\ ret[t].msgs[i].priority = ret[t].msgs[j].priority
            /\ ret[t].msgs[i].from = ret[t].msgs[j].from
            /\ \E v, w \in visibleAt :
                /\ v.id = ret[t].msgs[i].id
                /\ w.id = ret[t].msgs[j].id
                /\ v.by # w.by

----------------------------------------------------------------------------
(* SpecThread: one caller sends messages and replies, and reads threads    *)

ThreadMsgs == 3

InitThread == InitWith({"t1"})

NextThread ==
    \/ \E t \in AllThreads :
        \/ /\ nextId <= ThreadMsgs
           /\ \E reply_to \in {NoId, UnknownId} \cup ids(file.msgs) :
                send_call(t, FDA, EXECUTOR, TASK, "medium", reply_to) /\ UNCHANGED <<loop, state>>
        \/ \E msg_id \in {UnknownId} \cup ids(file.msgs) :
                get_thread_call(t, msg_id) /\ UNCHANGED <<loop, state>>
        \/ _acquire_lock(t)
        \/ send_lookup(t)
        \/ send_write(t)
        \/ get_thread_read(t)
        \/ _release_lock_unlock(t)
        \/ _release_lock_close(t)
    \/ (now < MaxClock /\ Tick)

SpecThread == InitThread /\ [][NextThread]_vars

\* C5: in the bus, a message sent with reply_to = null has thread_id equal to
\* its own id, and a message sent with reply_to = r has the thread_id of
\* message r, or its own id if r was not in the bus; so the messages of a
\* chain m0 -> m1 -> m2 share thread_id = m0.id.  get_thread(id) returns the
\* messages of the thread of message id in timestamp order, with m0, m1, m2
\* in that order for get_thread(m2), and [] for an unknown id.
C5_ThreadId ==
    /\ [](file.kind = "json" =>
            LET msgs == file.msgs
            IN  /\ \A k \in 1..Len(msgs) :
                    IF msgs[k].reply_to = NoId
                    THEN msgs[k].thread_id = msgs[k].id
                    ELSE IF \E j \in 1..(k - 1) : msgs[j].id = msgs[k].reply_to
                         THEN \E j \in 1..(k - 1) :
                                /\ msgs[j].id = msgs[k].reply_to
                                /\ msgs[k].thread_id = msgs[j].thread_id
                         ELSE msgs[k].thread_id = msgs[k].id
                /\ \A a, b, c \in 1..Len(msgs) :
                    ( /\ msgs[a].reply_to = NoId
                      /\ msgs[b].reply_to = msgs[a].id
                      /\ msgs[c].reply_to = msgs[b].id )
                    => /\ msgs[a].thread_id = msgs[a].id
                       /\ msgs[b].thread_id = msgs[a].id
                       /\ msgs[c].thread_id = msgs[a].id)
    /\ [][\A t \in AllThreads :
            (pc[t] = "get_thread_read" /\ pc'[t] = "idle" /\ ~ret'[t].raised) =>
                LET r == ret'[t].msgs
                    msgs == file.msgs
                    known == {k \in 1..Len(msgs) : msgs[k].id = op[t].msg_id}
                    at(x) == CHOOSE i \in 1..Len(r) : r[i].id = x
                IN  IF known = {}
                    THEN r = <<>>
                    ELSE \E c \in known :
                        LET members == {k \in 1..Len(msgs) :
                                            msgs[k].thread_id = msgs[c].thread_id}
                        IN  /\ Len(r) = Cardinality(members)
                            /\ \A k \in members : \E i \in 1..Len(r) : r[i] = msgs[k]
                            /\ \A i, j \in 1..Len(r) :
                                    i < j => r[i].timestamp <= r[j].timestamp
                            /\ \A a, b \in 1..Len(msgs) :
                                ( /\ msgs[a].reply_to = NoId
                                  /\ msgs[b].reply_to = msgs[a].id
                                  /\ msgs[c].reply_to = msgs[b].id )
                                => /\ at(msgs[a].id) < at(msgs[b].id)
                                   /\ at(msgs[b].id) < at(msgs[c].id)
                                   /\ Len(r) = 3 =>
                                        r = <<msgs[a], msgs[b], msgs[c]>>]_vars

\* C5 witness: get_thread(m2) has returned [m0, m1, m2] for a chain
C5_Witness ==
    \E t \in threads :
        /\ pc[t] = "idle"
        /\ Len(ret[t].msgs) = 3
        /\ [i \in 1..3 |-> ret[t].msgs[i].id] = <<1, 2, 3>>
        /\ [i \in 1..3 |-> ret[t].msgs[i].reply_to] = <<NoId, 1, 2>>
        /\ \A i \in 1..3 : ret[t].msgs[i].thread_id = 1

----------------------------------------------------------------------------
(* SpecWait: a requester sends a request and waits for the response while  *)
(* a peer sends results                                                    *)

WaitMsgs == 3
WaitTimeout == 2        \* timeout_seconds of the wait, in clock ticks
PollInterval == 1       \* poll_interval of the wait, in clock ticks

InitWait == InitWith({"t1", "t2"})

NextWait ==
    \/ /\ nextId <= WaitMsgs
       /\ send_call("t1", FDA, EXECUTOR, EXECUTE_REQUEST, "medium", NoId)
       /\ UNCHANGED <<loop, state>>
    \/ /\ ret["t1"].value # NoId
       /\ wait_call("t1", FDA, ret["t1"].value, WaitTimeout, PollInterval)
       /\ UNCHANGED <<loop, state>>
    \/ /\ nextId <= WaitMsgs
       /\ \E reply_to \in {UnknownId} \cup ids(file.msgs) :
            send_call("t2", EXECUTOR, FDA, EXECUTE_RESULT, "medium", reply_to)
       /\ UNCHANGED <<loop, state>>
    \/ \E t \in AllThreads :
        \/ _acquire_lock(t)
        \/ send_lookup(t)
        \/ send_write(t)
        \/ wait_read(t)
        \/ wait_sleep(t)
        \/ wait_return_none(t)
        \/ _release_lock_unlock(t)
        \/ _release_lock_close(t)
    \/ (now <= WaitTimeout /\ Tick)

SpecWait == InitWait /\ [][NextWait]_vars

\* C6: wait_for_response(agent, request_id, timeout) returns null only if no
\* message addressed to agent with reply_to = request_id arrived in the bus
\* before the timeout expired.
C6_WaitForResponse ==
    \A t \in AllThreads :
        pc[t] = "wait_return_none" =>
            ~ \E v \in visibleAt :
                /\ v.to = op[t].agent_name
                /\ v.reply_to = op[t].msg_id
                /\ v.at < op[t].start_time + op[t].timeout

----------------------------------------------------------------------------
(* SpecMarkRead: one caller sends, polls and marks messages read           *)

MarkMsgs == 2

InitMarkRead == InitWith({"t1"})

NextMarkRead ==
    \/ \E t \in AllThreads :
        \/ /\ nextId <= MarkMsgs
           /\ send_call(t, FDA, EXECUTOR, TASK, "medium", NoId)
           /\ UNCHANGED <<loop, state>>
        \/ \E msg_id \in {UnknownId} \cup ids(file.msgs) :
                mark_read_call(t, msg_id) /\ UNCHANGED <<loop, state>>
        \/ get_pending_call(t, EXECUTOR) /\ UNCHANGED <<loop, state>>
        \/ _acquire_lock(t)
        \/ send_write(t)
        \/ mark_read_write(t)
        \/ get_pending_read(t)
        \/ _release_lock_unlock(t)
        \/ _release_lock_close(t)
    \/ (now < MaxClock /\ Tick)

SpecMarkRead == InitMarkRead /\ [][NextMarkRead]_vars

\* C7: mark_read is idempotent: a mark_read of a message that is already read
\* leaves the message list, read flag and read_at included, as it is.
C7_MarkReadIdempotent ==
    \A t \in AllThreads :
        ( /\ pc[t] = "mark_read_write"
          /\ json_load_ok(file)
          /\ \E k \in 1..Len(file.msgs) :
                file.msgs[k].id = op[t].msg_id /\ file.msgs[k].read )
        => mark_read(file.msgs, op[t].msg_id, now) = file.msgs

----------------------------------------------------------------------------
(* SpecCrash: a process that may die inside a bus operation                *)

CrashMsgs == 2

InitCrash == InitWith({"t1"})

NextCrash ==
    \/ \E t \in AllThreads :
        \/ /\ nextId <= CrashMsgs
           /\ send_call(t, FDA, EXECUTOR, TASK, "medium", NoId)
           /\ UNCHANGED <<loop, state>>
        \/ \E msg_id \in ids(file.msgs) : mark_read_call(t, msg_id) /\ UNCHANGED <<loop, state>>
        \/ cleanup_call(t, 0) /\ UNCHANGED <<loop, state>>
        \/ _acquire_lock(t)
        \/ send_write(t)
        \/ mark_read_write(t)
        \/ cleanup_write(t)
        \/ _release_lock_unlock(t)
        \/ _release_lock_close(t)
        \/ Crash(t)
        \/ Restart(t)
    \/ (now < MaxClock /\ Tick)

SpecCrash == InitCrash /\ [][NextCrash]_vars

\* C8: after a crash at any point of send, mark_read or cleanup_old_messages
\* the bus file is well-formed JSON, and it holds either the list the
\* operation loaded or the list the operation was writing.
C8_CrashAtomic ==
    \A t \in AllThreads :
        pc[t] = "crashed" =>
            /\ file.kind = "json"
            /\ op[t].dumped => file.msgs \in {op[t].loaded, op[t].bus_data}

----------------------------------------------------------------------------
(* SpecLock: two callers run every bus operation                           *)

LockMsgs == 1

InitLock == InitWith({"t1", "t2"})

NextLock ==
    \E t \in AllThreads :
        \/ /\ nextId <= LockMsgs
           /\ \E reply_to \in {NoId, UnknownId} \cup ids(file.msgs) :
                send_call(t, FDA, EXECUTOR, TASK, "medium", reply_to)
           /\ UNCHANGED <<loop, state>>
        \/ \E msg_id \in ids(file.msgs) : mark_read_call(t, msg_id) /\ UNCHANGED <<loop, state>>
        \/ cleanup_call(t, 0) /\ UNCHANGED <<loop, state>>
        \/ get_pending_call(t, EXECUTOR) /\ UNCHANGED <<loop, state>>
        \/ \E msg_id \in ids(file.msgs) : get_thread_call(t, msg_id) /\ UNCHANGED <<loop, state>>
        \/ _acquire_lock(t)
        \/ send_lookup(t)
        \/ send_write(t)
        \/ mark_read_write(t)
        \/ cleanup_write(t)
        \/ get_pending_read(t)
        \/ get_thread_read(t)
        \/ _release_lock_unlock(t)
        \/ _release_lock_close(t)

SpecLock == InitLock /\ [][NextLock]_vars

\* C10: a caller holds the lock only inside a critical section: once a bus
\* operation has returned or raised, and while it waits, its caller holds no
\* lock, so the lock is free for another caller whenever no caller is inside
\* a critical section.
C10_LockReleased ==
    /\ \A t \in AllThreads : lock = t => pc[t] \in Critical
    /\ lock # NoThread => lock \in threads

\* C10 witness: an operation of one caller has raised inside its critical
\* section, and another caller holds the lock afterwards
C10_Witness ==
    \E t, u \in threads :
        /\ t # u
        /\ pc[t] = "idle"
        /\ ret[t].raised
        /\ lock = u

----------------------------------------------------------------------------
(* SpecLoop: a requester and the running event loop of a peer              *)

LoopMsgs == 2

InitLoop ==
    /\ InitBus({"t1", "t2"})
    /\ \E name \in PeerNames :
        /\ loop = [t \in AllThreads |->
                    IF t = "t2"
                    THEN [name |-> name, at |-> "top", inbox |-> <<>>, _running |-> TRUE]
                    ELSE NoLoop]
        /\ state = update_agent_status(init_db, lower(name), "running")
    /\ scheduler = Scheduler_init
    /\ journal = Journal_init

NextLoop ==
    \/ /\ nextId <= LoopMsgs
       /\ \/ request_search("t1", FDA, "medium")
          \/ request_execute("t1", FDA, "medium")
          \/ request_file_operation("t1", FDA, "medium")
          \/ request_knowledge("t1", FDA, "medium")
          \/ request_claude_code("t1", FDA, "medium")
          \/ \E msg_type \in {EXECUTE_REQUEST, SEARCH_REQUEST, TASK} :
                send_message("t1", "FDA", loop["t2"].name, msg_type, "medium")
       /\ UNCHANGED <<loop, state>>
    \/ \E t \in AllThreads :
        \/ agent_while(t)
        \/ agent_poll(t)
        \/ agent_polled(t)
        \/ agent_for(t)
        \/ agent_dispatch(t)
        \/ agent_replied(t)
        \/ agent_replied_error(t)
        \/ _acquire_lock(t)
        \/ send_lookup(t)
        \/ send_write(t)
        \/ mark_read_write(t)
        \/ get_pending_read(t)
        \/ _release_lock_unlock(t)
        \/ _release_lock_close(t)
    \/ (now < MaxClock /\ Tick)

SpecLoop == InitLoop /\ [][NextLoop]_vars

\* C2: while the event loop of the addressed peer runs, its poll obtains
\* every unread request that a request helper addressed to it: the list that
\* the loop's get_pending is about to return holds each unread message of a
\* request type whose `to` is the peer's bus address.
C2_RequestObtained ==
    \A t \in AllThreads :
        ( /\ loop[t].at = "polling"
          /\ pc[t] = "get_pending_read"
          /\ json_load_ok(file) )
        => LET pending == get_pending(file.msgs, op[t].agent_name)
           IN  \A k \in 1..Len(file.msgs) :
                ( /\ file.msgs[k].to = lower(loop[t].name)
                  /\ file.msgs[k].type \in RequestTypes(loop[t].name)
                  /\ ~file.msgs[k].read )
                => \E i \in 1..Len(pending) : pending[i] = file.msgs[k]

----------------------------------------------------------------------------
(* SpecLockWait: a caller sends while another caller may hold the lock     *)

LockWaitMsgs == 1
LockRetryWindow == 1    \* a bound on the wait for the lock, in clock ticks

InitLockWait == InitWith({"t1", "t2"})

NextLockWait ==
    \/ \E t \in AllThreads :
        \/ /\ nextId <= LockWaitMsgs
           /\ \E reply_to \in {NoId, UnknownId} :
                send_call(t, FDA, EXECUTOR, TASK, "medium", reply_to)
           /\ UNCHANGED <<loop, state>>
        \/ get_pending_call(t, EXECUTOR) /\ UNCHANGED <<loop, state>>
        \/ _acquire_lock(t)
        \/ send_lookup(t)
        \/ send_write(t)
        \/ get_pending_read(t)
        \/ _release_lock_unlock(t)
        \/ _release_lock_close(t)
    \/ (now <= LockRetryWindow /\ Tick)

SpecLockWait == InitLockWait /\ [][NextLockWait]_vars

\* C9: send does not wait for the bus file lock beyond a bounded retry
\* window: no send is still waiting for the lock once more than
\* LockRetryWindow has passed while another caller held the lock throughout.
C9_BoundedLockWait ==
    \A t \in AllThreads :
        ( /\ pc[t] \in {"send_lock", "send_lookup_lock"}
          /\ lock \notin {NoThread, t}
          /\ op[lock].locked_at <= op[t].msg.timestamp )
        => now - op[t].msg.timestamp <= LockRetryWindow

----------------------------------------------------------------------------
(* Requests taken by a peer loop (checked under SpecLoop)                  *)

\* C11: no request is silently dropped: every message of a request type the
\* peer handles that the peer has taken from get_pending and marked read, and
\* that it is no longer handling, has a result message in the bus whose
\* reply_to is the request id and whose `to` is the requester.
C11_NoRequestDropped ==
    \A t \in AllThreads :
        (loop[t].at # "none" /\ json_load_ok(file)) =>
            \A k \in 1..Len(file.msgs) :
                LET m == file.msgs[k]
                    handling == /\ loop[t].at \in {"marking", "replying", "replying_error"}
                                /\ Head(loop[t].inbox).id = m.id
                IN  ( /\ m.to = loop[t].name
                      /\ m.type \in RequestTypes(loop[t].name)
                      /\ m.read
                      /\ ~handling )
                    => \E j \in 1..Len(file.msgs) :
                        /\ file.msgs[j].reply_to = m.id
                        /\ file.msgs[j].to = lower(m.from)

\* C12: when an operation of the loop fails because the bus file is malformed
\* (get_pending, mark_read or send_result raised on the unreadable file), the
\* loop aborts: it does not go back to the top of its iteration to poll again.
C12_LoopAborts ==
    [][ \A t \in AllThreads :
            ( /\ loop[t].at \in {"polling", "marking", "replying_error"}
              /\ pc[t] = "idle"
              /\ ret[t].raised )
            => loop'[t].at # "top" ]_vars

----------------------------------------------------------------------------
(* SpecStop: start() and stop() of a peer agent whose loop handles requests *)

StopMsgs == 1

InitStop ==
    /\ InitBus({"t1", "t2"})
    /\ \E name \in PeerNames :
        loop = [t \in AllThreads |->
                    IF t = "t2"
                    THEN [name |-> name, at |-> "start", inbox |-> <<>>, _running |-> FALSE]
                    ELSE NoLoop]
    /\ state = init_db
    /\ scheduler = Scheduler_init
    /\ journal = Journal_init

\* the steps of thread t: its event loop, if it runs one, and the bus
\* operation it is in
StepStop(t) ==
    \/ start(t)
    \/ agent_while(t)
    \/ agent_poll(t)
    \/ agent_polled(t)
    \/ agent_for(t)
    \/ agent_dispatch(t)
    \/ agent_replied(t)
    \/ agent_replied_error(t)
    \/ _acquire_lock(t)
    \/ send_lookup(t)
    \/ send_write(t)
    \/ mark_read_write(t)
    \/ get_pending_read(t)
    \/ _release_lock_unlock(t)
    \/ _release_lock_close(t)

NextStop ==
    \/ /\ nextId <= StopMsgs
       /\ \E msg_type \in {EXECUTE_REQUEST, SEARCH_REQUEST, TASK} :
            send_message("t1", "FDA", loop["t2"].name, msg_type, "medium")
       /\ UNCHANGED <<loop, state>>
    \/ stop("t2")
    \/ \E t \in AllThreads : StepStop(t)

\* every thread that can take a step is scheduled again
SpecStop ==
    /\ InitStop
    /\ [][NextStop]_vars
    /\ \A t \in {"t1", "t2"} : WF_vars(StepStop(t))

\* C13: the loop sets the status "running" on entry; once stop() has been
\* called on a running agent the loop is left only at its "while" test, it
\* is left eventually, and from then on the status row reads "stopped": no
\* status is written after it.
C13_StopStatus ==
    /\ [][loop["t2"].at = "start" /\ loop'["t2"].at # "start"
            => state'.agent_status[lower(loop["t2"].name)] = "running"]_vars
    /\ [][loop'["t2"].at = "stopped" /\ loop["t2"].at # "stopped"
            => loop["t2"].at = "top" /\ ~loop["t2"]._running]_vars
    /\ [](loop["t2"].at = "stopped"
            => state.agent_status[lower(loop["t2"].name)] = "stopped")
    /\ ((loop["t2"].at # "start" /\ ~loop["t2"]._running) ~> (loop["t2"].at = "stopped"))

\* stop() was called while a request was being handled, and the loop has
\* stopped after answering it
C13_Witness ==
    /\ loop["t2"].at = "stopped"
    /\ state.agent_status[lower(loop["t2"].name)] = "stopped"
    /\ json_load_ok(file)
    /\ \E k \in 1..Len(file.msgs) : file.msgs[k].reply_to # NoId

----------------------------------------------------------------------------
(* Command execution by the Executor (src/fda/executor_agent.py)           *)
(*                                                                         *)
(* A command is a Python str, modelled as the sequence of its characters.  *)

\* str.lower() on the characters in use
lower_char(c) ==
    CASE c = "R" -> "r"
      [] c = "M" -> "m"
      [] c = "F" -> "f"
      [] c = "K" -> "k"
      [] c = "S" -> "s"
      [] OTHER -> c

str_lower(s) == [i \in 1..Len(s) |-> lower_char(s[i])]

\* str.strip(): without leading and trailing blanks
strip(s) ==
    LET solid == {i \in 1..Len(s) : s[i] # " "}
    IN  IF solid = {} THEN <<>>
        ELSE SubSeq(s, CHOOSE i \in solid : \A j \in solid : i <= j,
                       CHOOSE i \in solid : \A j \in solid : i >= j)

\* pattern in s
contains(s, pattern) ==
    \E i \in 1..(Len(s) - Len(pattern) + 1) : SubSeq(s, i, i + Len(pattern) - 1) = pattern

\* s.endswith(pattern)
endswith(s, pattern) ==
    /\ Len(pattern) <= Len(s)
    /\ SubSeq(s, Len(s) - Len(pattern) + 1, Len(s)) = pattern

DANGEROUS_PATTERNS ==
    << <<"r", "m", " ", "-", "r", "f", " ", "/">>,
       <<"r", "m", " ", "-", "r", "f", " ", "/", "*">>,
       <<"m", "k", "f", "s">>,
       <<":", "(", ")", "{", ":", "|", ":", "&", "}", ";", ":">>,
       <<"d", "d", " ", "i", "f", "=", "/", "d", "e", "v", "/", "z", "e", "r", "o">>,
       <<">", " ", "/", "d", "e", "v", "/", "s", "d", "a">> >>

_is_dangerous_command(command) ==
    LET command_lower == strip(str_lower(command))
    IN  \/ \E k \in 1..Len(DANGEROUS_PATTERNS) : contains(command_lower, DANGEROUS_PATTERNS[k])
        \/ /\ contains(command_lower, <<"r", "m", " ">>)
           /\ contains(command_lower, <<"-", "r", "f">>)
           /\ \/ contains(command_lower, <<" ", "/">>)
              \/ endswith(command_lower, <<" ", "/">>)

\* return codes subprocess.run may report for a command the model spawns
ReturnCodes == {0, 1}

\* run_command, lines 926-928: "if len(self.command_history) > 100"
HistoryLimit == 100

\* self.command_history[-100:] once the history is longer than that
keep_history(command_history) ==
    IF Len(command_history) > HistoryLimit
    THEN SubSeq(command_history, Len(command_history) - HistoryLimit + 1, Len(command_history))
    ELSE command_history

\* run_command: the result dictionary.  A dangerous command is answered
\* without subprocess.run; otherwise return_code is what the process reported.
run_command(command, return_code) ==
    IF _is_dangerous_command(command)
    THEN [command |-> command, stdout |-> "",
          stderr |-> "Command blocked: potentially dangerous operation",
          return_code |-> -1, success |-> FALSE, error |-> "Blocked for safety"]
    ELSE [command |-> command, stdout |-> "out", stderr |-> "",
          return_code |-> return_code, success |-> (return_code = 0), error |-> "None"]

\* result=None of the error reply
None ==
    [command |-> <<>>, stdout |-> "", stderr |-> "", return_code |-> 0,
     success |-> FALSE, error |-> "None"]

\* the message dictionary with its body
WithBody(msg, body) ==
    [f \in DOMAIN msg \cup {"body"} |-> IF f = "body" THEN body ELSE msg[f]]

\* send, the body given: lines 137-142 and 154-166
send(t, from_agent, to_agent, msg_type, body, priority, reply_to) ==
    /\ t \in threads
    /\ pc[t] = "idle"
    /\ nextId' = nextId + 1
    /\ op' = [op EXCEPT ![t] =
                [IdleOp EXCEPT !.name = "send", !.msg_id = nextId,
                    !.msg = WithBody(Message(nextId, from_agent, to_agent, msg_type,
                                             priority, now, nextId, reply_to), body)]]
    /\ pc' = [pc EXCEPT ![t] = IF reply_to # NoId THEN "send_lookup_lock" ELSE "send_lock"]
    /\ ret' = [ret EXCEPT ![t] = NoRet]
    /\ sentBefore' = sentBefore \cup {<<v.id, nextId>> : v \in visibleAt}
    /\ UNCHANGED <<file, lock, buf, now, threads, scheduler, journal, visibleAt>>

\* request_execute: body = json.dumps({"command": command, "cwd": cwd})
request_execute_command(t, from_agent, command) ==
    send(t, from_agent, EXECUTOR, EXECUTE_REQUEST, [command |-> command], "medium", NoId)

\* send_result: body = json.dumps({"success", "result", "error"})
send_result_body(t, from_agent, to_agent, msg_type, result, success, error, reply_to) ==
    send(t, from_agent, to_agent, msg_type,
         [success |-> success, result |-> result, error |-> error], "medium", reply_to)

\* _handle_message after mark_read for an execute_request:
\* _handle_execute_request runs run_command and sends the result
agent_execute(t) ==
    /\ loop[t].at = "marking"
    /\ pc[t] = "idle"
    /\ LET message == Head(loop[t].inbox)
       IN  IF ret[t].raised
           THEN /\ loop' = [loop EXCEPT ![t] = [@ EXCEPT !.at = "top", !.inbox = <<>>]]
                /\ LoopOnly
           ELSE \E return_code \in ReturnCodes :
                LET command == message.body.command
                    result == run_command(command, return_code)
                IN  /\ _is_dangerous_command(command) => return_code = 0
                    /\ send_result_body(t, lower(loop[t].name), lower(message.from),
                                        EXECUTE_RESULT, result, result.success,
                                        result.error, message.id)
                    /\ loop' = [loop EXCEPT ![t] =
                            [@ EXCEPT !.at = "replying",
                                      !.command_history =
                                          IF _is_dangerous_command(command)
                                          THEN Append(@, result)
                                          ELSE keep_history(Append(@, result)),
                                      !.spawned = IF _is_dangerous_command(command)
                                                  THEN @ ELSE @ \cup {command}]]
                    /\ state' = update_agent_status(state, lower(loop[t].name), "busy")

\* the send_result of _handle_execute_request returned, or raised into the
\* except clause of _handle_message, which sends the error result
agent_execute_replied(t) ==
    /\ loop[t].at = "replying"
    /\ pc[t] = "idle"
    /\ IF ret[t].raised
       THEN /\ send_result_body(t, lower(loop[t].name), lower(Head(loop[t].inbox).from),
                                EXECUTE_RESULT, None, FALSE, "exception",
                                Head(loop[t].inbox).id)
            /\ loop' = [loop EXCEPT ![t].at = "replying_error"]
            /\ UNCHANGED state
       ELSE /\ loop' = [loop EXCEPT ![t] = [@ EXCEPT !.at = "for", !.inbox = Tail(@)]]
            /\ LoopStatus(t, "running")

\* the commands requested in SpecExec
ExecCommands ==
    { <<"R", "M", " ", "-", "R", "F", " ", "/">>,
      <<" ", "m", "k", "f", "s", " ">>,
      <<"r", "m", " ", "-", "r", "f", " ", "t", "m", "p">>,
      <<"l", "s">> }

ExecMsgs == 2

InitExec ==
    /\ InitBus({"t1", "t2"})
    /\ loop = [t \in AllThreads |->
                IF t = "t2"
                THEN [name |-> "Executor", at |-> "top", inbox |-> <<>>, _running |-> TRUE,
                      command_history |-> <<>>, spawned |-> {}]
                ELSE NoLoop]
    /\ state = update_agent_status(init_db, "executor", "running")
    /\ scheduler = Scheduler_init
    /\ journal = Journal_init

NextExec ==
    \/ /\ nextId <= ExecMsgs
       /\ \E command \in ExecCommands :
            \/ request_execute_command("t1", "fda", command)
            \/ send("t1", "FDA", "Executor", EXECUTE_REQUEST, [command |-> command],
                    "medium", NoId)
       /\ UNCHANGED <<loop, state>>
    \/ \E t \in AllThreads :
        \/ agent_while(t)
        \/ agent_poll(t)
        \/ agent_polled(t)
        \/ agent_for(t)
        \/ agent_execute(t)
        \/ agent_execute_replied(t)
        \/ agent_replied_error(t)
        \/ _acquire_lock(t)
        \/ send_lookup(t)
        \/ send_write(t)
        \/ mark_read_write(t)
        \/ get_pending_read(t)
        \/ _release_lock_unlock(t)
        \/ _release_lock_close(t)

SpecExec == InitExec /\ [][NextExec]_vars

\* no process is spawned for a dangerous command, and the command history
\* holds the blocked result for each one the Executor ran run_command on
NoDangerousSpawn ==
    \A c \in loop["t2"].spawned : ~_is_dangerous_command(c)

\* C14: every execute_request with a dangerous command that the Executor has
\* taken and is no longer handling was not spawned, and the bus holds an
\* execute_result for it (reply_to = its id) whose result has success false,
\* return_code -1, stderr "Command blocked: potentially dangerous operation"
\* and error "Blocked for safety".
C14_DangerousBlocked ==
    json_load_ok(file) =>
        \A k \in 1..Len(file.msgs) :
            LET m == file.msgs[k]
                handling == /\ loop["t2"].at \in {"marking", "replying", "replying_error"}
                            /\ Head(loop["t2"].inbox).id = m.id
            IN  ( /\ m.type = EXECUTE_REQUEST
                  /\ m.to = loop["t2"].name
                  /\ m.read
                  /\ ~handling
                  /\ _is_dangerous_command(m.body.command) )
                => /\ m.body.command \notin loop["t2"].spawned
                   /\ \E j \in 1..Len(file.msgs) :
                        /\ file.msgs[j].reply_to = m.id
                        /\ file.msgs[j].type = EXECUTE_RESULT
                        /\ file.msgs[j].body.success = FALSE
                        /\ file.msgs[j].body.result = run_command(m.body.command, 0)

----------------------------------------------------------------------------
(* Tasks: the tasks table of the state store and the Executor's task work  *)

\* self.current_task = None
NoTask ==
    [id |-> NoId, status |-> "", owner |-> "", priority |-> "",
     created_at |-> NoTime, updated_at |-> NoTime]

\* ProjectState.add_task: a new row with a fresh id; status defaults to pending
add_task(db, owner, priority, at) ==
    [db EXCEPT !.tasks = Append(@, [id |-> Len(@) + 1, status |-> "pending",
                                    owner |-> owner, priority |-> priority,
                                    created_at |-> at, updated_at |-> at])]

\* ProjectState.update_task(task_id, **fields): the allowed fields given are
\* set, and updated_at
update_task(db, task_id, fields, at) ==
    LET allowed_fields == {"title", "description", "owner", "status", "priority", "due_date"}
        update_fields == DOMAIN fields \cap allowed_fields
    IN  IF update_fields = {} THEN db
        ELSE [db EXCEPT !.tasks =
                [k \in 1..Len(@) |->
                    IF @[k].id # task_id THEN @[k]
                    ELSE [f \in DOMAIN @[k] |->
                            IF f \in update_fields THEN fields[f]
                            ELSE IF f = "updated_at" THEN at
                            ELSE @[k][f]]]]

\* ProjectState.get_tasks(status): ORDER BY created_at DESC
get_tasks(db, status) ==
    LET rows == SelectSeq(db.tasks, LAMBDA r : status = "" \/ r.status = status)
        keys == [i \in 1..Len(rows) |-> <<0 - rows[i].created_at>>]
    IN  sort(rows, keys)

\* a pick_up_task that takes the pending tasks as get_tasks returns them
sorted_tasks_newest(db) == get_tasks(db, "pending")

\* pick_up_task: the pending task of highest priority, the oldest first
sorted_tasks(db) ==
    LET pending_tasks == get_tasks(db, "pending")
        keys == [i \in 1..Len(pending_tasks) |->
                    <<priority_order(pending_tasks[i].priority), pending_tasks[i].created_at>>]
    IN  sort(pending_tasks, keys)

\* task_check_frequency of run_event_loop
task_check_frequency == 5

\* the cli adds a task (fda task add)
cli_add_task(priority) ==
    /\ state' = add_task(state, "unassigned", priority, now)
    /\ now' = now + 1
    /\ UNCHANGED <<file, lock, pc, op, buf, ret, nextId, threads, scheduler, journal, visibleAt,
                   sentBefore, loop>>

\* the Executor's "for message in messages": _handle_message begins with
\* mark_read; after the last message the task check follows
executor_for(t) ==
    /\ loop[t].at = "for"
    /\ pc[t] = "idle"
    /\ IF loop[t].inbox = <<>>
       THEN /\ loop' = [loop EXCEPT ![t].at = "task_check"]
            /\ LoopOnly
       ELSE /\ mark_read_call(t, Head(loop[t].inbox).id)
            /\ loop' = [loop EXCEPT ![t].at = "marking"]
            /\ UNCHANGED state

\* run_event_loop, lines 139-151: every task_check_frequency-th iteration an
\* idle Executor calls pick_up_task, which sets the task in_progress with the
\* Executor as owner; the status row becomes "busy".  The counter is only
\* compared with task_check_frequency, so the model stops counting there.
task_check(t) ==
    /\ loop[t].at = "task_check"
    /\ LET counter == IF loop[t].task_check_counter >= task_check_frequency
                      THEN task_check_frequency
                      ELSE loop[t].task_check_counter + 1
           queue == sorted_tasks(state)
       IN  IF counter >= task_check_frequency /\ loop[t].current_task = NoTask
           THEN IF queue = <<>>
                THEN /\ loop' = [loop EXCEPT ![t] =
                            [@ EXCEPT !.at = "top", !.task_check_counter = 0]]
                     /\ UNCHANGED state
                ELSE /\ loop' = [loop EXCEPT ![t] =
                            [@ EXCEPT !.at = "executing", !.task_check_counter = 0,
                                      !.current_task = queue[1]]]
                     /\ state' = update_agent_status(
                            update_task(state, queue[1].id,
                                        [status |-> "in_progress", owner |-> loop[t].name], now),
                            lower(loop[t].name), "busy")
           ELSE /\ loop' = [loop EXCEPT ![t] =
                        [@ EXCEPT !.at = "top", !.task_check_counter = counter]]
                /\ UNCHANGED state
    /\ UNCHANGED <<file, lock, pc, op, buf, ret, now, nextId, threads, scheduler, journal, visibleAt,
                   sentBefore>>

\* what chat_with_context does for execute_task: it raises (chat logs the
\* API error and re-raises), or the response names a blocker, or it does not
LLMOutcomes == {"raise", "blocked", "completed"}

\* execute_task and what run_event_loop does with its result, lines 154-160:
\* the task becomes blocked and report_blocker sends the blocker message, or
\* it becomes completed and request_review sends the review_request; an
\* exception of chat_with_context goes to the loop's "except Exception"
execute_task(t) ==
    /\ loop[t].at = "executing"
    /\ pc[t] = "idle"
    /\ \E outcome \in LLMOutcomes :
        CASE outcome = "raise" ->
                /\ loop' = [loop EXCEPT ![t].at = "top"]
                /\ LoopOnly
          [] outcome = "blocked" ->
                /\ state' = update_task(state, loop[t].current_task.id,
                                        [status |-> "blocked"], now)
                /\ send_message(t, loop[t].name, "FDA", "blocker", "high")
                /\ loop' = [loop EXCEPT ![t].at = "reporting"]
          [] outcome = "completed" ->
                /\ state' = update_task(state, loop[t].current_task.id,
                                        [status |-> "completed"], now)
                /\ send_message(t, loop[t].name, "FDA", "review_request", "medium")
                /\ loop' = [loop EXCEPT ![t].at = "reviewing"]

\* run_event_loop, lines 162-164: request_review or report_blocker returned,
\* the Executor is idle again; or the send raised into "except Exception"
task_done(t) ==
    /\ loop[t].at \in {"reviewing", "reporting"}
    /\ pc[t] = "idle"
    /\ IF ret[t].raised
       THEN /\ loop' = [loop EXCEPT ![t].at = "top"]
            /\ LoopOnly
       ELSE /\ loop' = [loop EXCEPT ![t] = [@ EXCEPT !.at = "top", !.current_task = NoTask]]
            /\ LoopStatus(t, "running")

\* handoff_task called on the Executor object of loop thread e by thread t:
\* an unknown task_id is an error; otherwise the task becomes pending with
\* the new owner and the task_assignment message is sent
handoff_task(t, e, task_id, to_agent) ==
    /\ loop[t].at = "api"
    /\ LET found == SelectSeq(get_tasks(state, ""), LAMBDA r : r.id = task_id)
       IN  IF found = <<>>
           THEN UNCHANGED vars
           ELSE /\ state' = update_task(state, task_id,
                                        [owner |-> to_agent, status |-> "pending"], now)
                /\ send_message(t, loop[e].name, to_agent, "task_assignment",
                                found[1].priority)
                /\ loop' = [loop EXCEPT ![t] = [@ EXCEPT !.at = "handoff", !.task_id = task_id]]

\* handoff_task, lines 826-829: the send returned, current_task is cleared if
\* it was the task handed off; or the send raised
handoff_done(t, e) ==
    /\ loop[t].at = "handoff"
    /\ pc[t] = "idle"
    /\ loop' = [loop EXCEPT
            ![t] = [@ EXCEPT !.at = "api", !.task_id = NoId],
            ![e] = IF ~ret[t].raised /\ loop[e].current_task.id = loop[t].task_id
                   THEN [@ EXCEPT !.current_task = NoTask]
                   ELSE @]
    /\ LoopOnly

----------------------------------------------------------------------------
(* SpecTask: the Executor's loop picks up and executes the tasks added     *)

TaskCount == 2

\* the Executor object whose loop thread t runs
ExecutorLoop ==
    [name |-> "Executor", at |-> "top", inbox |-> <<>>, _running |-> TRUE,
     current_task |-> NoTask, task_check_counter |-> 0]

InitTask ==
    /\ InitBus({"t2"})
    /\ loop = [t \in AllThreads |-> IF t = "t2" THEN ExecutorLoop ELSE NoLoop]
    /\ state = update_agent_status(init_db, "executor", "running")
    /\ scheduler = Scheduler_init
    /\ journal = Journal_init

\* the steps of the Executor's thread
StepTask(t) ==
    \/ agent_while(t)
    \/ agent_poll(t)
    \/ agent_polled(t)
    \/ executor_for(t)
    \/ task_check(t)
    \/ execute_task(t)
    \/ task_done(t)
    \/ _acquire_lock(t)
    \/ send_write(t)
    \/ get_pending_read(t)
    \/ _release_lock_unlock(t)
    \/ _release_lock_close(t)

NextTask ==
    \/ /\ Len(state.tasks) < TaskCount
       /\ \E priority \in {"high", "low"} : cli_add_task(priority)
    \/ StepTask("t2")

SpecTask == InitTask /\ [][NextTask]_vars

\* C15: a task the Executor picked up is settled within the iteration that
\* picked it up: whenever the loop is back at its "while" test, no task is
\* left in_progress and the Executor is idle (current_task is None), so that
\* it can pick up a further pending task.
C15_TaskSettled ==
    loop["t2"].at = "top" =>
        /\ loop["t2"].current_task = NoTask
        /\ \A k \in 1..Len(state.tasks) : state.tasks[k].status # "in_progress"

----------------------------------------------------------------------------
(* SpecHandoff: the Executor's loop, and handoff_task called from another  *)
(* thread                                                                  *)

HandoffTasks == 1

HandoffMsgs == 3

InitHandoff ==
    /\ InitBus({"t1", "t2"})
    /\ loop = [t \in AllThreads |->
                IF t = "t2" THEN ExecutorLoop
                ELSE IF t = "t1"
                THEN [name |-> "", at |-> "api", inbox |-> <<>>, _running |-> FALSE,
                      task_id |-> NoId]
                ELSE NoLoop]
    /\ state = update_agent_status(init_db, "executor", "running")
    /\ scheduler = Scheduler_init
    /\ journal = Journal_init

NextHandoff ==
    \/ /\ Len(state.tasks) < HandoffTasks
       /\ \E priority \in {"high", "low"} : cli_add_task(priority)
    \/ /\ nextId <= HandoffMsgs
       /\ \E task_id \in 1..HandoffTasks : handoff_task("t1", "t2", task_id, "FDA")
    \/ handoff_done("t1", "t2")
    \/ \E t \in {"t1", "t2"} : StepTask(t)

SpecHandoff == InitHandoff /\ [][NextHandoff]_vars

\* C16: no operation on tasks changes the status of a completed task: in
\* particular none changes it back to pending.
C16_CompletedTerminal ==
    [][ \A k \in 1..Len(state.tasks) :
            state.tasks[k].status = "completed" => state'.tasks[k].status = "completed" ]_vars

----------------------------------------------------------------------------
(* The file index and the code routes of the state store                   *)

\* the row of path in the file index: its position, 0 if there is none
IndexOf(rows, path) ==
    IF \E i \in 1..Len(rows) : rows[i].path = path
    THEN CHOOSE i \in 1..Len(rows) : rows[i].path = path
    ELSE 0

\* a deviation of add_file_to_index: INSERT OR REPLACE, the row of the path
\* is replaced by the new row with its new id
add_file_to_index_replace(db, file_id, path, extension, size, at) ==
    [db EXCEPT !.file_index =
        Append(SelectSeq(@, LAMBDA r : r.path # path),
               [id |-> file_id, path |-> path, extension |-> extension, size |-> size,
                indexed_at |-> at])]

\* add_file_to_index: INSERT ... ON CONFLICT(path) DO UPDATE SET every column
\* but id and path
add_file_to_index(db, file_id, path, extension, size, at) ==
    LET i == IndexOf(db.file_index, path)
    IN  IF i = 0
        THEN [db EXCEPT !.file_index =
                Append(@, [id |-> file_id, path |-> path, extension |-> extension,
                           size |-> size, indexed_at |-> at])]
        ELSE [db EXCEPT !.file_index[i] =
                [@ EXCEPT !.extension = extension, !.size = size, !.indexed_at = at]]

\* remove_file_from_index: DELETE FROM file_index WHERE path = ?
remove_file_from_index(db, path) ==
    [db EXCEPT !.file_index = SelectSeq(@, LAMBDA r : r.path # path)]

\* search_file_index(extension=ext): ORDER BY indexed_at DESC
search_file_index(db, extension) ==
    LET rows == SelectSeq(db.file_index, LAMBDA r : r.extension = extension)
        keys == [i \in 1..Len(rows) |-> <<0 - rows[i].indexed_at>>]
    IN  sort(rows, keys)

\* add_code_route: INSERT OR REPLACE on the primary key id, which is fresh
add_code_route(db, route_id, file_path, route_type, name, line_number) ==
    [db EXCEPT !.code_routes =
        Append(SelectSeq(@, LAMBDA r : r.id # route_id),
               [id |-> route_id, file_path |-> file_path, route_type |-> route_type,
                name |-> name, line_number |-> line_number])]

\* the paths and extensions of the files in the model's source tree
Paths == {"a.py", "b.js"}

Extensions == {"py", "js", "md"}

\* _analyze_code_file on the unchanged source tree: the routes of a file
_analyze_code_file(file_path, extension) ==
    IF file_path = "a.py" /\ extension = "py"
    THEN << [type |-> "function", name |-> "f", line |-> 1],
            [type |-> "class", name |-> "C", line |-> 3] >>
    ELSE IF file_path = "b.js" /\ extension \in {"js", "ts"}
    THEN << [type |-> "function", name |-> "g", line |-> 1] >>
    ELSE <<>>

code_extensions == <<"py", "js", "ts", "go", "java">>

\* the (file_path, route) pairs build_routing_system inserts, in its order:
\* for ext in code_extensions, for file_entry in files, for route in routes
RECURSIVE Flatten(_)
Flatten(ss) == IF ss = <<>> THEN <<>> ELSE Head(ss) \o Flatten(Tail(ss))

routes_to_add(db) ==
    Flatten([e \in 1..Len(code_extensions) |->
        LET files == search_file_index(db, code_extensions[e])
        IN  Flatten([i \in 1..Len(files) |->
                LET routes == _analyze_code_file(files[i].path, code_extensions[e])
                IN  [k \in 1..Len(routes) |-> [file_path |-> files[i].path, route |-> routes[k]]]])])

\* the add_code_route calls of build_routing_system, with route ids from
\* first_id on
RECURSIVE add_routes(_, _, _)
add_routes(db, todo, first_id) ==
    IF todo = <<>> THEN db
    ELSE add_routes(add_code_route(db, first_id, Head(todo).file_path, Head(todo).route.type,
                                   Head(todo).route.name, Head(todo).route.line),
                    Tail(todo), first_id + 1)

\* the (file_path, name, route_type, line_number) tuples of the route table
route_tuples(db) ==
    {<<db.code_routes[i].file_path, db.code_routes[i].name, db.code_routes[i].route_type,
       db.code_routes[i].line_number>> : i \in 1..Len(db.code_routes)}

DISCOVERY == "discovery"

\* explore_filesystem indexes a file of the tree (add_file_to_index)
index_file(t, path, extension, size) ==
    /\ loop[t].at = "exploring"
    /\ state' = add_file_to_index(state, nextId, path, extension, size, now)
    /\ nextId' = nextId + 1
    /\ loop' = [loop EXCEPT ![t].last = [call |-> "add", path |-> path,
                                          extension |-> extension, size |-> size]]
    /\ UNCHANGED <<file, lock, pc, op, buf, ret, now, threads, scheduler, journal, visibleAt, sentBefore>>

\* remove_file_from_index
unindex_file(t, path) ==
    /\ loop[t].at = "exploring"
    /\ state' = remove_file_from_index(state, path)
    /\ loop' = [loop EXCEPT ![t].last = [call |-> "remove", path |-> path,
                                          extension |-> "", size |-> 0]]
    /\ UNCHANGED <<file, lock, pc, op, buf, ret, now, nextId, threads, scheduler, journal, visibleAt,
                   sentBefore>>

\* build_routing_system, the loops over the indexed code files
build_routing_system(t) ==
    /\ loop[t].at \in {"exploring", "built"}
    /\ Len(state.file_index) > 0
    /\ LET todo == routes_to_add(state)
       IN  /\ state' = add_routes(state, todo, nextId)
           /\ nextId' = nextId + Len(todo)
    /\ loop' = [loop EXCEPT ![t] =
            [@ EXCEPT !.at = "sharing", !.runs = @ + 1,
                      !.first_run = IF loop[t].runs = 0 THEN route_tuples(state') ELSE @]]
    /\ UNCHANGED <<file, lock, pc, op, buf, ret, now, threads, scheduler, journal, visibleAt, sentBefore>>

\* build_routing_system, the end: share_discovery sends the statistics to FDA
share_discovery(t) ==
    /\ loop[t].at = "sharing"
    /\ send_call(t, lower(loop[t].name), FDA, DISCOVERY, "low", NoId)
    /\ loop' = [loop EXCEPT ![t].at = "shared"]
    /\ UNCHANGED state

\* share_discovery returned, or raised
build_returned(t) ==
    /\ loop[t].at = "shared"
    /\ pc[t] = "idle"
    /\ loop' = [loop EXCEPT ![t].at = "built"]
    /\ LoopOnly

\* the Librarian object before its loop: exploring, no build yet
LibrarianObject ==
    [name |-> "Librarian", at |-> "exploring", inbox |-> <<>>, _running |-> FALSE,
     last |-> [call |-> "", path |-> "", extension |-> "", size |-> 0],
     runs |-> 0, first_run |-> {}]

InitIndex ==
    /\ InitBus({"t1"})
    /\ loop = [t \in AllThreads |-> IF t = "t1" THEN LibrarianObject ELSE NoLoop]
    /\ state = init_db
    /\ scheduler = Scheduler_init
    /\ journal = Journal_init

----------------------------------------------------------------------------
(* SpecRouting: the files are indexed, then build_routing_system runs      *)

RoutingFiles == 2

RoutingRuns == 2

NextRouting ==
    \/ /\ nextId <= RoutingFiles
       /\ \E path \in Paths, extension \in Extensions : index_file("t1", path, extension, 1)
    \/ (loop["t1"].runs < RoutingRuns /\ build_routing_system("t1"))
    \/ share_discovery("t1")
    \/ build_returned("t1")
    \/ _acquire_lock("t1")
    \/ send_write("t1")
    \/ _release_lock_unlock("t1")
    \/ _release_lock_close("t1")

SpecRouting == InitIndex /\ [][NextRouting]_vars

\* C17: after build_routing_system has run, and after it has run again on
\* the unchanged index and tree, the route table holds the tuples
\* (file_path, name, route_type, line_number) of the first run, each once.
C17_RoutingIdempotent ==
    loop["t1"].runs >= 1 =>
        /\ route_tuples(state) = loop["t1"].first_run
        /\ Len(state.code_routes) = Cardinality(route_tuples(state))

----------------------------------------------------------------------------
(* SpecFileIndex: add_file_to_index and remove_file_from_index in any order *)

IndexCalls == 4

NextFileIndex ==
    \/ /\ nextId <= IndexCalls
       /\ \E path \in Paths, extension \in Extensions, size \in {1, 2} :
            index_file("t1", path, extension, size)
    \/ \E path \in Paths : unindex_file("t1", path)

SpecFileIndex == InitIndex /\ [][NextFileIndex]_vars

\* C18: the file index holds at most one row per path; a call of
\* add_file_to_index for a path that has a row keeps the id of that row and
\* replaces its other fields by the ones given; remove_file_from_index
\* leaves no row of the path.
C18_FileIndexUpsert ==
    /\ [](\A i, j \in 1..Len(state.file_index) :
            state.file_index[i].path = state.file_index[j].path => i = j)
    /\ [][ \A path \in Paths :
            LET i == IndexOf(state.file_index, path)
                k == IndexOf(state'.file_index, path)
            IN  /\ (i # 0 /\ k # 0) => state'.file_index[k].id = state.file_index[i].id
                /\ (loop'["t1"].last.call = "add" /\ loop'["t1"].last.path = path)
                    => /\ k # 0
                       /\ state'.file_index[k].extension = loop'["t1"].last.extension
                       /\ state'.file_index[k].size = loop'["t1"].last.size
                /\ (loop'["t1"].last.call = "remove" /\ loop'["t1"].last.path = path)
                    => k = 0 ]_vars

\* a path was indexed a second time with other fields and kept its row id
C18_Witness ==
    /\ loop["t1"].last.call = "add"
    /\ nextId > 2
    /\ \E i \in 1..Len(state.file_index) :
        /\ state.file_index[i].path = loop["t1"].last.path
        /\ state.file_index[i].id < nextId - 1
        /\ state.file_index[i].size = 2
        /\ state.file_index[i].extension = "md"

----------------------------------------------------------------------------
(* The scheduler (src/fda/scheduler.py)                                    *)
(*                                                                         *)
(* scheduler.timers is the key set of self.timers and scheduler.timer[n]   *)
(* the threading.Timer object made for the one-time task n: "created",     *)
(* "waiting" (started, interval running), "cancelled", "fired" (interval   *)
(* over, finished event found clear, the function is being called),        *)
(* "calling" (run_task found _running true), "callback", "cleanup",        *)
(* "done".  Thread t1 calls run(), thread t2 calls stop().                 *)

\* a scheduler step touches nothing else
SchedOnly ==
    UNCHANGED <<file, lock, pc, op, buf, ret, now, nextId, threads, visibleAt, sentBefore,
                loop, state, journal>>

\* self.tasks.items(): the registered tasks in insertion order
tasks_items(sch) ==
    SelectSeq(sch.order, LAMBDA n : sch.tasks[n] # "none")

\* self.tasks[name] = ...: a new key goes to the end, an existing key keeps
\* its place
dict_set(order, name) ==
    IF \E k \in 1..Len(order) : order[k] = name THEN order ELSE Append(order, name)

\* del self.tasks[name]
dict_del(order, name) ==
    SelectSeq(order, LAMBDA n : n # name)

\* register_daily_checkin: schedule_next is only stored in self.tasks, without
\* the lock; no timer is made.  A key added while run() iterates over
\* self.tasks makes the iteration raise.
register_daily_checkin ==
    /\ scheduler.tasks["daily_checkin"] = "none"
    /\ scheduler' = [scheduler EXCEPT
            !.tasks["daily_checkin"] = "daily",
            !.order = dict_set(@, "daily_checkin"),
            !.resized = @ \/ scheduler.run_pc = "tasks",
            !.unregistered["daily_checkin"] = FALSE]
    /\ SchedOnly

\* register_task, called by register_calendar_watcher: as above
register_task(name) ==
    /\ scheduler.tasks[name] = "none"
    /\ scheduler' = [scheduler EXCEPT
            !.tasks[name] = "periodic",
            !.order = dict_set(@, name),
            !.resized = @ \/ scheduler.run_pc = "tasks",
            !.unregistered[name] = FALSE]
    /\ SchedOnly

\* unregister_task: under the lock, the timer of the name is cancelled and
\* deleted and the registration is deleted
unregister_task(name) ==
    /\ scheduler._lock = NoThread
    /\ scheduler.tasks[name] # "none"
    /\ scheduler' = [scheduler EXCEPT
            !.timer = [n \in OneTimeNames |->
                        IF n = name /\ n \in scheduler.timers /\ @[n] \in {"created", "waiting"}
                        THEN "cancelled" ELSE @[n]],
            !.timers = @ \ {name},
            !.tasks[name] = "none",
            !.order = dict_del(@, name),
            !.unregistered[name] = TRUE]
    /\ SchedOnly

\* register_one_time: under the lock, the Timer is made and entered, and
\* started at once if the scheduler is running
register_one_time(name) ==
    /\ scheduler.tasks[name] = "none"
    /\ scheduler.timer[name] \in {"none", "done", "cancelled"}
    /\ scheduler._lock = NoThread
    /\ scheduler' = [scheduler EXCEPT
            !.timers = @ \cup {name},
            !.tasks[name] = "one_time",
            !.order = dict_set(@, name),
            !.calls[name] = 0,
            !.unregistered[name] = FALSE,
            !.timer[name] = IF scheduler._running THEN "waiting" ELSE "created"]
    /\ SchedOnly

\* run, lines 221-222
run_call ==
    /\ scheduler.run_pc = "idle"
    /\ scheduler' = [scheduler EXCEPT !._running = TRUE, !._stop_event = FALSE,
                                      !.run_pc = "lock"]
    /\ SchedOnly

\* run, line 226: with self._lock
run_lock ==
    /\ scheduler.run_pc = "lock"
    /\ scheduler._lock = NoThread
    /\ scheduler' = [scheduler EXCEPT !._lock = "t1", !.todo = tasks_items(scheduler),
                                      !.resized = FALSE, !.run_pc = "tasks"]
    /\ SchedOnly

\* run, lines 227-231, one task of the loop.  schedule_func() is
\* schedule_next(): it returns at once if _running is false, and otherwise
\* enters "with self._lock" while run() holds that lock; threading.Lock is
\* not reentrant, so the thread blocks there.  A one-time task's Timer is
\* started: KeyError if stop() has cleared self.timers, RuntimeError if the
\* Timer was started already, RuntimeError if self.tasks grew during the
\* iteration; the exception leaves run() and releases the lock.
run_task ==
    /\ scheduler.run_pc = "tasks"
    /\ IF scheduler.resized
       THEN scheduler' = [scheduler EXCEPT !._lock = NoThread, !.todo = <<>>,
                                           !.resized = FALSE, !.run_pc = "raised"]
       ELSE IF scheduler.todo = <<>>
       THEN scheduler' = [scheduler EXCEPT !._lock = NoThread, !.run_pc = "wait"]
       ELSE LET name == Head(scheduler.todo)
            IN  IF scheduler.tasks[name] \in {"daily", "periodic"}
                THEN IF ~scheduler._running
                     THEN scheduler' = [scheduler EXCEPT !.todo = Tail(@)]
                     ELSE scheduler' = [scheduler EXCEPT !.run_pc = "blocked"]
                ELSE IF name \in scheduler.timers /\ scheduler.timer[name] = "created"
                     THEN scheduler' = [scheduler EXCEPT !.todo = Tail(@),
                                                         !.timer[name] = "waiting"]
                     ELSE scheduler' = [scheduler EXCEPT !._lock = NoThread, !.todo = <<>>,
                                                         !.run_pc = "raised"]
    /\ SchedOnly

\* run, line 236: self._stop_event.wait() returns once the event is set
run_return ==
    /\ scheduler.run_pc = "wait"
    /\ scheduler._stop_event
    /\ scheduler' = [scheduler EXCEPT !.run_pc = "returned"]
    /\ SchedOnly

\* stop, line 255
stop_call ==
    /\ scheduler.stop_pc = "idle"
    /\ scheduler.run_pc # "idle"
    /\ scheduler' = [scheduler EXCEPT !._running = FALSE, !.stop_pc = "lock"]
    /\ SchedOnly

\* stop, lines 257-260: under the lock every timer of self.timers is
\* cancelled (which stops a Timer that has not fired yet) and the dictionary
\* is cleared
stop_lock ==
    /\ scheduler.stop_pc = "lock"
    /\ scheduler._lock = NoThread
    /\ scheduler' = [scheduler EXCEPT
            !.timer = [n \in OneTimeNames |->
                        IF n \in scheduler.timers /\ @[n] \in {"created", "waiting"}
                        THEN "cancelled" ELSE @[n]],
            !.timers = {},
            !.stop_pc = "set"]
    /\ SchedOnly

\* stop, line 262, and the return
stop_return ==
    /\ scheduler.stop_pc = "set"
    /\ scheduler' = [scheduler EXCEPT !._stop_event = TRUE, !.stop_pc = "returned"]
    /\ SchedOnly

\* threading.Timer.run: the interval is over and the Timer was not cancelled
timer_fire(name) ==
    /\ scheduler.timer[name] = "waiting"
    /\ scheduler' = [scheduler EXCEPT !.timer[name] = "fired"]
    /\ SchedOnly

\* run_task, lines 171-172: if not self._running: return
timer_run_task(name) ==
    /\ scheduler.timer[name] = "fired"
    /\ scheduler' = [scheduler EXCEPT !.timer[name] =
                        IF scheduler._running THEN "calling" ELSE "done"]
    /\ SchedOnly

\* run_task, line 174: callback() starts executing
callback_start(name) ==
    /\ scheduler.timer[name] = "calling"
    /\ scheduler' = [scheduler EXCEPT !.timer[name] = "callback", !.calls[name] = @ + 1]
    /\ SchedOnly

\* callback() returned or raised
callback_end(name) ==
    /\ scheduler.timer[name] = "callback"
    /\ scheduler' = [scheduler EXCEPT !.timer[name] = "cleanup"]
    /\ SchedOnly

\* run_task, lines 177-182: finally, under the lock, the task and its timer
\* are deleted
timer_cleanup(name) ==
    /\ scheduler.timer[name] = "cleanup"
    /\ scheduler._lock = NoThread
    /\ scheduler' = [scheduler EXCEPT !.timers = @ \ {name}, !.tasks[name] = "none",
                                      !.order = dict_del(@, name),
                                      !.timer[name] = "done"]
    /\ SchedOnly

\* Scheduler(): tasks are registered before run() or while it runs
InitSched ==
    /\ InitBus({"t1", "t2"})
    /\ loop = [t \in AllThreads |-> NoLoop]
    /\ state = init_db
    /\ scheduler = Scheduler_init
    /\ journal = Journal_init

NextSched ==
    \/ register_daily_checkin
    \/ register_task("calendar_watcher")
    \/ \E name \in TaskNames : unregister_task(name)
    \/ \E name \in OneTimeNames : register_one_time(name)
    \/ run_call
    \/ run_lock
    \/ run_task
    \/ run_return
    \/ stop_call
    \/ stop_lock
    \/ stop_return
    \/ \E name \in OneTimeNames :
        \/ timer_fire(name)
        \/ timer_run_task(name)
        \/ callback_start(name)
        \/ callback_end(name)
        \/ timer_cleanup(name)

SpecSched == InitSched /\ [][NextSched]_vars

\* C19: no callback starts executing after stop() has returned.
C19_NoCallbackAfterStop ==
    [][ \A name \in OneTimeNames :
            (scheduler.timer[name] = "calling" /\ scheduler'.timer[name] = "callback")
            => scheduler.stop_pc # "returned" ]_vars

\* C20: run() blocks until stop(), and stop() ends it: run() has not returned
\* (nor raised) while stop() has not been called, and once stop() has been
\* called and no thread can take a further step, stop() and run() have
\* returned and the timer set is empty.
C20_RunUntilStop ==
    /\ scheduler.stop_pc = "idle" => scheduler.run_pc \notin {"returned", "raised"}
    /\ (scheduler.stop_pc # "idle" /\ ~ENABLED NextSched)
        => /\ scheduler.stop_pc = "returned"
           /\ scheduler.run_pc = "returned"
           /\ scheduler.timers = {}

\* C21: a task registered with register_task is invoked periodically while
\* the scheduler runs and the task stays registered, whether registered before
\* run() or while running: whenever the scheduler is running, run() is past
\* the start of the registered tasks and the task is registered, a timer of
\* the task is in the timer set.
C21_PeriodicArmed ==
    (/\ scheduler._running
     /\ scheduler.run_pc \notin {"idle", "lock", "tasks"}
     /\ scheduler.tasks["calendar_watcher"] = "periodic")
    => "calendar_watcher" \in scheduler.timers

\* C22: after unregister_task(name) has returned and until the name is
\* registered again, the name is in neither self.tasks nor self.timers and
\* its callback does not start.
C22_UnregisteredAbsent ==
    /\ [](\A name \in TaskNames :
            scheduler.unregistered[name]
            => scheduler.tasks[name] = "none" /\ name \notin scheduler.timers)
    /\ [][ \A name \in OneTimeNames :
            (scheduler.timer[name] = "calling" /\ scheduler'.timer[name] = "callback")
            => ~scheduler.unregistered[name] ]_vars

\* C23: the callback of a one-time task is invoked at most once, and once
\* its timer has fired and run_task has ended, the task is in neither
\* self.tasks nor self.timers.
C23_OneTimeRemoved ==
    \A name \in OneTimeNames :
        /\ scheduler.calls[name] <= 1
        /\ scheduler.timer[name] = "done"
            => scheduler.tasks[name] = "none" /\ name \notin scheduler.timers

----------------------------------------------------------------------------
(* FDAAgent.ask (src/fda/fda_agent.py)                                     *)
(*                                                                         *)
(* The Director object is loop[t] of the thread t that calls ask: at is    *)
(* the position inside ask, peer_result what _delegate_to_librarian gave   *)
(* ("None", "request_id" for the {"request_id": ...} of a wait that timed  *)
(* out, "response"), request the id of the request sent.  A question is    *)
(* what the three phrase tests of ask say about it.                        *)

\* the phrase tests of lines 1020-1035: a file search phrase, a greeting,
\* _requires_external_capabilities
Questions ==
    [file_search : BOOLEAN, is_simple_query : BOOLEAN, requires_delegation : BOOLEAN]

\* the Director object, not inside ask
DirectorObject ==
    [name |-> "FDA", at |-> "idle", inbox |-> <<>>, _running |-> FALSE,
     question |-> [file_search |-> FALSE, is_simple_query |-> FALSE,
                   requires_delegation |-> FALSE],
     peer_result |-> "None", request |-> NoId]

\* timeout of request_file_search in _delegate_to_librarian (15.0 s), in
\* clock ticks
AskSearchTimeout == 2

\* timeout of the wait in _delegate_to_claude_code (120 + 30 s), in clock ticks
AskClaudeTimeout == 3

\* what self.client.messages.create does for chat: it returns a text, or it
\* raises (chat logs the error and re-raises)
ChatOutcomes == {"text", "raise"}

\* get_peer_status(agent).get("status") == "running"
peer_running(db, agent_name) ==
    db.agent_status[lower(agent_name)] = "running"

\* ask, lines 1016-1025: the file search phrases; _delegate_to_librarian
\* returns None if the Librarian is not running, else request_file_search
\* sends the search request
ask(t, question) ==
    /\ loop[t].at = "idle"
    /\ pc[t] = "idle"
    /\ IF question.file_search /\ peer_running(state, LIBRARIAN)
       THEN /\ request_search(t, lower(loop[t].name), "medium")
            /\ loop' = [loop EXCEPT ![t] = [@ EXCEPT !.at = "searching",
                                                     !.question = question]]
            /\ UNCHANGED state
       ELSE /\ loop' = [loop EXCEPT ![t] = [@ EXCEPT !.at = "claude_code",
                                                     !.question = question,
                                                     !.peer_result = "None"]]
            /\ LoopOnly

\* request_file_search, lines 296-309: the send returned, the wait starts;
\* an exception of the send leaves ask
ask_searched(t) ==
    /\ loop[t].at = "searching"
    /\ pc[t] = "idle"
    /\ IF ret[t].raised
       THEN /\ loop' = [loop EXCEPT ![t].at = "raised"]
            /\ LoopOnly
       ELSE /\ wait_call(t, lower(loop[t].name), ret[t].value, AskSearchTimeout, PollInterval)
            /\ loop' = [loop EXCEPT ![t] = [@ EXCEPT !.at = "search_wait",
                                                     !.request = ret[t].value]]
            /\ UNCHANGED state

\* request_file_search, lines 310-314: the response, or {"request_id": msg_id}
\* after a timeout; an exception of the wait leaves ask
ask_search_waited(t) ==
    /\ loop[t].at = "search_wait"
    /\ pc[t] = "idle"
    /\ loop' = [loop EXCEPT ![t] =
                    IF ret[t].raised
                    THEN [@ EXCEPT !.at = "raised"]
                    ELSE [@ EXCEPT !.at = "claude_code",
                                   !.peer_result = IF ret[t].msgs # <<>> THEN "response"
                                                                         ELSE "request_id"]]
    /\ LoopOnly

\* ask, lines 1040-1048, when _try_claude_code gave no answer: the
\* explanation of the limitation is returned, or ask goes on to the API call
no_claude_code(t) ==
    IF loop[t].question.requires_delegation THEN "returned" ELSE "chat"

\* ask, lines 1040-1042, and _try_claude_code up to the send of
\* _delegate_to_claude_code: not tried for a greeting or with a peer result;
\* None if the Executor is not running
ask_claude_code(t) ==
    /\ loop[t].at = "claude_code"
    /\ pc[t] = "idle"
    /\ IF loop[t].question.is_simple_query \/ loop[t].peer_result # "None"
       THEN /\ loop' = [loop EXCEPT ![t].at = "chat"]
            /\ LoopOnly
       ELSE IF peer_running(state, EXECUTOR)
            THEN /\ request_claude_code(t, lower(loop[t].name), "high")
                 /\ loop' = [loop EXCEPT ![t].at = "claude_sent"]
                 /\ UNCHANGED state
            ELSE /\ loop' = [loop EXCEPT ![t].at = no_claude_code(t)]
                 /\ LoopOnly

\* _delegate_to_claude_code, lines 1221-1237: the send returned, the wait
\* starts
ask_claude_sent(t) ==
    /\ loop[t].at = "claude_sent"
    /\ pc[t] = "idle"
    /\ IF ret[t].raised
       THEN /\ loop' = [loop EXCEPT ![t].at = "raised"]
            /\ LoopOnly
       ELSE /\ wait_call(t, lower(loop[t].name), ret[t].value, AskClaudeTimeout, PollInterval)
            /\ loop' = [loop EXCEPT ![t] = [@ EXCEPT !.at = "claude_wait",
                                                     !.request = ret[t].value]]
            /\ UNCHANGED state

\* _delegate_to_claude_code, lines 1239-1248, and _try_claude_code, lines
\* 1139-1155: a response is marked read and its output, if it has one, is
\* what ask returns; without a response or an output, ask goes on
ask_claude_waited(t) ==
    /\ loop[t].at \in {"claude_wait", "claude_mark"}
    /\ pc[t] = "idle"
    /\ IF ret[t].raised
       THEN /\ loop' = [loop EXCEPT ![t].at = "raised"]
            /\ LoopOnly
       ELSE IF loop[t].at = "claude_wait" /\ ret[t].msgs # <<>>
            THEN /\ mark_read_call(t, ret[t].msgs[1].id)
                 /\ loop' = [loop EXCEPT ![t].at = "claude_mark"]
                 /\ UNCHANGED state
            ELSE /\ \E output \in BOOLEAN :
                    loop' = [loop EXCEPT ![t].at =
                                IF loop[t].at = "claude_mark" /\ output
                                THEN "returned" ELSE no_claude_code(t)]
                 /\ LoopOnly

\* ask, lines 1050-1095: the context is built and chat_with_context is
\* called outside any try: its text is returned, its exception leaves ask
ask_chat(t) ==
    /\ loop[t].at = "chat"
    /\ pc[t] = "idle"
    /\ \E outcome \in ChatOutcomes :
        loop' = [loop EXCEPT ![t].at = IF outcome = "text" THEN "returned" ELSE "raised"]
    /\ LoopOnly

\* the transport has the answer, or the exception, of ask
ask_done(t) ==
    /\ loop[t].at \in {"returned", "raised"}
    /\ loop' = [loop EXCEPT ![t] = DirectorObject]
    /\ LoopOnly

\* requests sent by ask in a run
AskMsgs == 2

\* clock readings of a run of ask
AskClock == 4

\* the Director's process with any peers running or not
InitAsk ==
    /\ InitBus({"t1"})
    /\ loop = [t \in AllThreads |-> IF t = "t1" THEN DirectorObject ELSE NoLoop]
    /\ \E librarian, executor \in {"absent", "running"} :
        state = [init_db EXCEPT !.agent_status["librarian"] = librarian,
                                !.agent_status["executor"] = executor]
    /\ scheduler = Scheduler_init
    /\ journal = Journal_init

NextAsk ==
    \/ /\ nextId <= AskMsgs
       /\ \E question \in Questions : ask("t1", question)
    \/ ask_searched("t1")
    \/ ask_search_waited("t1")
    \/ ask_claude_code("t1")
    \/ ask_claude_sent("t1")
    \/ ask_claude_waited("t1")
    \/ ask_chat("t1")
    \/ ask_done("t1")
    \/ _acquire_lock("t1")
    \/ send_write("t1")
    \/ wait_read("t1")
    \/ wait_sleep("t1")
    \/ wait_return_none("t1")
    \/ _release_lock_unlock("t1")
    \/ _release_lock_close("t1")
    \/ (now < AskClock /\ Tick)

SpecAsk == InitAsk /\ [][NextAsk]_vars

\* C25: ask returns a string for every question: no call of ask ends with an
\* exception that reaches the caller.
C25_AskReturnsString == loop["t1"].at # "raised"

----------------------------------------------------------------------------
(* The Director's event loop and the discoveries of the peers              *)
(* (src/fda/fda_agent.py, lines 100-241)                                   *)

BLOCKER == "blocker"

\* ProjectState.add_discovery: a row of the discoveries table; message is the
\* id of the bus message it was taken from
add_discovery(db, agent, message) ==
    [db EXCEPT !.discoveries = Append(@, [agent |-> agent, message |-> message])]

\* ProjectState.add_alert: a row of the alerts table
add_alert(db, level, source) ==
    [db EXCEPT !.alerts = Append(@, [level |-> level, source |-> source])]

\* FDAAgent._handle_message after mark_read: a peer response is stored in
\* pending_requests, a discovery is persisted by _handle_discovery, a blocker
\* raises an alert, a status response is logged.  An exception of mark_read
\* goes to the loop's "except Exception".
fda_handle_message(t) ==
    /\ loop[t].at = "marking"
    /\ pc[t] = "idle"
    /\ LET message == Head(loop[t].inbox)
       IN  IF ret[t].raised
           THEN /\ loop' = [loop EXCEPT ![t] = [@ EXCEPT !.at = "top", !.inbox = <<>>]]
                /\ UNCHANGED state
           ELSE /\ loop' = [loop EXCEPT ![t] = [@ EXCEPT !.at = "for", !.inbox = Tail(@)]]
                /\ state' = CASE message.type = DISCOVERY ->
                                    add_discovery(state, message.from, message.id)
                              [] message.type = BLOCKER ->
                                    add_alert(state, "warning", loop[t].name)
                              [] OTHER -> state
    /\ UNCHANGED <<file, lock, pc, op, buf, ret, now, nextId, threads, scheduler, journal, visibleAt,
                   sentBefore>>

\* messages sent in a run
DiscoveryMsgs == 2

\* the Director's loop runs in t2; t1 is a peer
InitDiscovery ==
    /\ InitBus({"t1", "t2"})
    /\ loop = [t \in AllThreads |->
                IF t = "t2"
                THEN [name |-> "FDA", at |-> "top", inbox |-> <<>>, _running |-> TRUE]
                ELSE NoLoop]
    /\ state = update_agent_status(init_db, "fda", "running")
    /\ scheduler = Scheduler_init
    /\ journal = Journal_init

\* the Librarian broadcasts a discovery (share_discovery, to Agents.FDA), the
\* Executor reports a blocker (send_message to "FDA")
NextDiscovery ==
    \/ /\ nextId <= DiscoveryMsgs
       /\ \/ send_call("t1", LIBRARIAN, FDA, DISCOVERY, "low", NoId)
          \/ send_message("t1", "Executor", "FDA", BLOCKER, "high")
       /\ UNCHANGED <<loop, state>>
    \/ \E t \in {"t1", "t2"} :
        \/ agent_while(t)
        \/ agent_poll(t)
        \/ agent_polled(t)
        \/ agent_for(t)
        \/ fda_handle_message(t)
        \/ _acquire_lock(t)
        \/ send_write(t)
        \/ mark_read_write(t)
        \/ get_pending_read(t)
        \/ _release_lock_unlock(t)
        \/ _release_lock_close(t)

SpecDiscovery == InitDiscovery /\ [][NextDiscovery]_vars

\* C26: every discovery a peer broadcasts reaches the running Director loop:
\* the list that the loop's get_pending is about to return holds each unread
\* discovery message addressed to the Director's bus address.
C26_DiscoveryReceived ==
    ( /\ loop["t2"].at = "polling"
      /\ pc["t2"] = "get_pending_read"
      /\ json_load_ok(file) )
    => LET pending == get_pending(file.msgs, op["t2"].agent_name)
       IN  \A k \in 1..Len(file.msgs) :
            ( /\ file.msgs[k].to = FDA
              /\ file.msgs[k].type = DISCOVERY
              /\ ~file.msgs[k].read )
            => \E i \in 1..Len(pending) : pending[i] = file.msgs[k]

----------------------------------------------------------------------------
(* The start of the Librarian (src/fda/librarian_agent.py, lines 128-207)  *)
(*                                                                         *)
(* loop[t].roots are the exploration roots still to explore, TRUE for a    *)
(* root that exists; every root that exists holds the file a.py.           *)
(* explored and routed tell that a share_discovery of the phase returned.  *)

\* the Librarian object when BaseAgent.start is called
LibrarianStart(roots) ==
    [name |-> "Librarian", at |-> "start", inbox |-> <<>>, _running |-> FALSE,
     _exploration_complete |-> FALSE, _routing_complete |-> FALSE,
     roots |-> roots, explored |-> FALSE, routed |-> FALSE]

\* start and run_event_loop, lines 142-148: status "running", then
\* "exploring" since _exploration_complete is false
librarian_start(t) ==
    /\ loop[t].at = "start"
    /\ loop' = [loop EXCEPT ![t] = [@ EXCEPT !._running = TRUE, !.at = "explore"]]
    /\ LoopStatus(t, "exploring")

\* run_event_loop, lines 155-166, and explore_filesystem up to
\* add_discovery: a root that does not exist is skipped, the files of one
\* that exists are indexed; after the last root _exploration_complete is set
explore_filesystem(t) ==
    /\ loop[t].at = "explore"
    /\ IF loop[t].roots = <<>>
       THEN /\ loop' = [loop EXCEPT ![t] = [@ EXCEPT !._exploration_complete = TRUE,
                                                     !.at = "routing"]]
            /\ UNCHANGED <<state, nextId>>
       ELSE IF ~Head(loop[t].roots)
       THEN /\ loop' = [loop EXCEPT ![t].roots = Tail(@)]
            /\ UNCHANGED <<state, nextId>>
       ELSE /\ loop' = [loop EXCEPT ![t].at = "explore_share"]
            /\ state' = add_discovery(add_file_to_index(state, nextId, "a.py", "py", 1, now),
                                      lower(loop[t].name), NoId)
            /\ nextId' = nextId + 1
    /\ UNCHANGED <<file, lock, pc, op, buf, ret, now, threads, scheduler, journal, visibleAt, sentBefore>>

\* explore_filesystem, lines 523-529: share_discovery
explore_share(t) ==
    /\ loop[t].at = "explore_share"
    /\ send_call(t, lower(loop[t].name), FDA, DISCOVERY, "low", NoId)
    /\ loop' = [loop EXCEPT ![t].at = "explore_sharing"]
    /\ UNCHANGED state

\* share_discovery returned and the next root is explored, or it raised into
\* the "except Exception" of line 167, which ends the exploration with
\* _exploration_complete still false
explore_shared(t) ==
    /\ loop[t].at = "explore_sharing"
    /\ pc[t] = "idle"
    /\ loop' = [loop EXCEPT ![t] =
                    IF ret[t].raised
                    THEN [@ EXCEPT !.at = "routing"]
                    ELSE [@ EXCEPT !.at = "explore", !.roots = Tail(@), !.explored = TRUE]]
    /\ LoopOnly

\* run_event_loop, lines 172-176, and build_routing_system up to its
\* share_discovery: entered only with _exploration_complete; status "routing"
routing_start(t) ==
    /\ loop[t].at = "routing"
    /\ IF ~loop[t]._routing_complete /\ loop[t]._exploration_complete
       THEN LET todo == routes_to_add(state)
            IN  /\ state' = update_agent_status(add_routes(state, todo, nextId),
                                                lower(loop[t].name), "routing")
                /\ nextId' = nextId + Len(todo)
                /\ loop' = [loop EXCEPT ![t].at = "routing_share"]
       ELSE /\ loop' = [loop EXCEPT ![t].at = "top"]
            /\ UNCHANGED <<state, nextId>>
    /\ UNCHANGED <<file, lock, pc, op, buf, ret, now, threads, scheduler, journal, visibleAt, sentBefore>>

\* build_routing_system, lines 1255-1262: share_discovery
routing_share(t) ==
    /\ loop[t].at = "routing_share"
    /\ send_call(t, lower(loop[t].name), FDA, DISCOVERY, "low", NoId)
    /\ loop' = [loop EXCEPT ![t].at = "routing_sharing"]
    /\ UNCHANGED state

\* share_discovery returned and _routing_complete is set, or it raised into
\* the "except Exception" of line 178; then the service loop
routing_shared(t) ==
    /\ loop[t].at = "routing_sharing"
    /\ pc[t] = "idle"
    /\ loop' = [loop EXCEPT ![t] =
                    IF ret[t].raised
                    THEN [@ EXCEPT !.at = "top"]
                    ELSE [@ EXCEPT !.at = "top", !._routing_complete = TRUE, !.routed = TRUE]]
    /\ LoopOnly

\* the requests to the Librarian are sent while nextId is at most this
StartupMsgs == 2

\* exploration roots of a run
MaxRoots == 2

\* the positions of the startup phases and of the service loop
ExplorePositions == {"explore", "explore_share", "explore_sharing"}

RoutingPositions == {"routing_share", "routing_sharing"}

ServicePositions == {"top", "try", "polling", "for", "marking", "replying", "replying_error",
                     "stopped"}

\* the Librarian starts in t2 with any roots; t1 is a requesting peer
InitStartup ==
    /\ InitBus({"t1", "t2"})
    /\ \E roots \in UNION {[1..n -> BOOLEAN] : n \in 0..MaxRoots} :
        loop = [t \in AllThreads |-> IF t = "t2" THEN LibrarianStart(roots) ELSE NoLoop]
    /\ state = init_db
    /\ scheduler = Scheduler_init
    /\ journal = Journal_init

NextStartup ==
    \/ /\ nextId <= StartupMsgs
       /\ send_message("t1", "FDA", "Librarian", SEARCH_REQUEST, "medium")
       /\ UNCHANGED <<loop, state>>
    \/ \E t \in {"t1", "t2"} :
        \/ librarian_start(t)
        \/ explore_filesystem(t)
        \/ explore_share(t)
        \/ explore_shared(t)
        \/ routing_start(t)
        \/ routing_share(t)
        \/ routing_shared(t)
        \/ agent_while(t)
        \/ agent_poll(t)
        \/ agent_polled(t)
        \/ agent_for(t)
        \/ agent_dispatch(t)
        \/ agent_replied(t)
        \/ agent_replied_error(t)
        \/ _acquire_lock(t)
        \/ send_lookup(t)
        \/ send_write(t)
        \/ mark_read_write(t)
        \/ get_pending_read(t)
        \/ _release_lock_unlock(t)
        \/ _release_lock_close(t)

SpecStartup == InitStartup /\ [][NextStartup]_vars

\* C27: the phases of the Librarian's start run in order with their status:
\* "exploring" during the exploration, "routing" during the routing build,
\* which is entered only after a completed exploration; a request is
\* dispatched only in the service loop, with status "running" or "busy"; and
\* when the service loop is entered the exploration has emitted a discovery
\* broadcast, and so has the routing build if it was entered.
C27_StartupPhases ==
    LET l == loop["t2"]
        status == state.agent_status["librarian"]
    IN  /\ l.at \in ExplorePositions => status = "exploring"
        /\ l.at \in RoutingPositions => status = "routing" /\ l._exploration_complete
        /\ l.inbox # <<>> => l.at \in ServicePositions /\ status \in {"running", "busy"}
        /\ l.at \in ServicePositions =>
            /\ l.explored
            /\ l._exploration_complete => l.routed

----------------------------------------------------------------------------
(* The journal: JournalWriter.write_entry (src/fda/journal/writer.py) and   *)
(* JournalIndex (src/fda/journal/index.py).  An entry's metadata is its     *)
(* filename and a version that stands for author, tags, summary and         *)
(* created_at; every metadata the model passes has the required fields.     *)

\* a journal step touches nothing else
JournalOnly ==
    UNCHANGED <<file, lock, pc, op, buf, ret, now, nextId, threads, visibleAt, sentBefore,
                loop, state, scheduler>>

\* [e for e in self.entries if e["filename"] == filename]
with_filename(entries, filename) ==
    SelectSeq(entries, LAMBDA e : e.filename = filename)

\* an add_entry that appends whatever the index holds
entries_append(entries, metadata) ==
    Append(entries, metadata)

\* add_entry, the list update: the first entry with the filename is replaced
\* where it stands, a new filename is appended
entries_add(entries, metadata) ==
    IF with_filename(entries, metadata.filename) # <<>>
    THEN LET idx == CHOOSE i \in 1..Len(entries) :
                        /\ entries[i] = with_filename(entries, metadata.filename)[1]
                        /\ \A j \in 1..(i - 1) :
                               entries[j] # with_filename(entries, metadata.filename)[1]
         IN [entries EXCEPT ![idx] = metadata]
    ELSE Append(entries, metadata)

\* remove_entry, the list update
entries_remove(entries, filename) ==
    SelectSeq(entries, LAMBDA e : e.filename # filename)

\* open(path, "w"): the file exists and is empty, what it held is gone; the
\* text written next reaches the disk in pieces until close() returns
truncated_entry == [kind |-> "truncated", version |-> 0]
truncated_index == [kind |-> "truncated", entries |-> <<>>, count |-> 0]

\* JournalIndex.load: the entries of a readable index.json, [] for a missing
\* file or one json.load rejects
load(index_json) ==
    IF index_json.kind = "json" THEN index_json.entries ELSE <<>>

\* the calls of one process follow each other
journal_idle == \A o \in IndexObjects : journal.index[o].at \in {"idle", "crashed"}

\* write_entry up to filepath.write_text: open(filepath, "w")
write_text_open(o, filename, version) ==
    /\ journal.index[o].at = "idle"
    /\ journal_idle
    /\ journal' = [journal EXCEPT
           !.entry_files[filename] = truncated_entry,
           !.index[o].at = "entry_open",
           !.index[o].call = [name |-> "write_entry", filename |-> filename,
                              version |-> version, existing |-> FALSE]]
    /\ JournalOnly

\* filepath.write_text: the content is written and the file closed
write_text_close(o) ==
    /\ journal.index[o].at = "entry_open"
    /\ journal' = [journal EXCEPT
           !.entry_files[journal.index[o].call.filename] =
               [kind |-> "complete", version |-> journal.index[o].call.version],
           !.index[o].at = "entry_written"]
    /\ JournalOnly

\* JournalIndex.add_entry up to save()'s open(self.index_path, "w")
add_entry(o, metadata, name) ==
    journal' = [journal EXCEPT
        !.index[o].entries = entries_add(@, metadata),
        !.index[o].at = "index_open",
        !.index[o].call = [name |-> name, filename |-> metadata.filename,
                           version |-> metadata.version,
                           existing |-> with_filename(journal.index[o].entries,
                                                      metadata.filename) # <<>>],
        !.index_file = truncated_index]

\* write_entry: self.index.add_entry({...}) for the file just written
write_entry_index(o) ==
    /\ journal.index[o].at = "entry_written"
    /\ add_entry(o, [filename |-> journal.index[o].call.filename,
                     version |-> journal.index[o].call.version], "write_entry")
    /\ JournalOnly

\* a caller of JournalIndex.add_entry (update_index of the librarian)
index_add_entry(o, filename, version) ==
    /\ journal.index[o].at = "idle"
    /\ journal_idle
    /\ add_entry(o, [filename |-> filename, version |-> version], "add_entry")
    /\ JournalOnly

\* save(): json.dump of entries and count, the file closed; the call returns
save_close(o) ==
    /\ journal.index[o].at = "index_open"
    /\ journal' = [journal EXCEPT
           !.index_file = [kind |-> "json", entries |-> journal.index[o].entries,
                           count |-> Len(journal.index[o].entries)],
           !.index[o].at = "idle",
           !.last = o]
    /\ JournalOnly

\* JournalIndex.remove_entry: save() only if an entry went away
remove_entry(o, filename) ==
    /\ journal.index[o].at = "idle"
    /\ journal_idle
    /\ IF Len(entries_remove(journal.index[o].entries, filename))
              < Len(journal.index[o].entries)
       THEN journal' = [journal EXCEPT
                !.index[o].entries = entries_remove(@, filename),
                !.index[o].at = "index_open",
                !.index[o].call = [name |-> "remove_entry", filename |-> filename,
                                   version |-> 0, existing |-> TRUE],
                !.index_file = truncated_index]
       ELSE journal' = [journal EXCEPT
                !.index[o].call = [name |-> "remove_entry", filename |-> filename,
                                   version |-> 0, existing |-> FALSE]]
    /\ JournalOnly

\* the process dies inside write_entry or inside a save
journal_crash(o) ==
    /\ journal.index[o].at \notin {"idle", "crashed"}
    /\ journal' = [journal EXCEPT !.index[o].at = "crashed"]
    /\ JournalOnly

\* the next process: JournalIndex.__init__ loads what is on disk
journal_restart(o) ==
    /\ journal.index[o].at = "crashed"
    /\ journal' = [journal EXCEPT
           !.index[o].entries = load(journal.index_file),
           !.index[o].at = "idle",
           !.last = "none"]
    /\ JournalOnly

NextJournalIndex ==
    \/ \E o \in {"i1"}, filename \in Filenames, version \in Versions :
           write_text_open(o, filename, version)
    \/ \E o \in {"i1"} : write_text_close(o)
    \/ \E o \in {"i1"} : write_entry_index(o)
    \/ \E o \in {"i1"}, filename \in Filenames, version \in Versions :
           index_add_entry(o, filename, version)
    \/ \E o \in {"i1"} : save_close(o)
    \/ \E o \in {"i1"}, filename \in Filenames : remove_entry(o, filename)

InitJournal ==
    /\ InitBus({})
    /\ loop = [t \in AllThreads |-> NoLoop]
    /\ state = init_db
    /\ scheduler = Scheduler_init
    /\ journal = Journal_init

SpecJournalIndex == InitJournal /\ [][NextJournalIndex]_vars

NextJournalCrash ==
    \/ NextJournalIndex
    \/ \E o \in {"i1"} : journal_crash(o)
    \/ \E o \in {"i1"} : journal_restart(o)

SpecJournalCrash == InitJournal /\ [][NextJournalCrash]_vars

\* C28: entry files and the index file are written atomically: once the
\* process has crashed inside write_entry or inside an index save, every
\* entry file and the index file is missing or holds a complete content
\* (the previous or the new one), never a truncated or partial one
C28_AtomicWrites ==
    \A o \in IndexObjects :
        journal.index[o].at = "crashed" =>
            /\ journal.index_file.kind # "truncated"
            /\ \A f \in Filenames : journal.entry_files[f].kind # "truncated"

\* the filenames of a list of entries are pairwise different
unique_filenames(entries) ==
    \A i, j \in 1..Len(entries) : entries[i].filename = entries[j].filename => i = j

\* C29: after any sequence of add_entry and remove_entry calls the index
\* holds at most one entry per filename, the index file holds exactly the
\* in-memory entries whenever a mutation has returned, and an add_entry for
\* a filename the index holds puts the metadata where the old entry stood and
\* leaves the other entries and the length alone (a new filename is appended)
C29_IndexConsistent ==
    /\ [](\A o \in IndexObjects : unique_filenames(journal.index[o].entries))
    /\ [](\A o \in IndexObjects :
             (journal.last = o /\ journal.index[o].at = "idle") =>
                 /\ journal.index_file.kind = "json"
                 /\ journal.index_file.entries = journal.index[o].entries
                 /\ journal.index_file.count = Len(journal.index[o].entries))
    /\ [][\A o \in IndexObjects :
             (/\ journal.index[o].at # "index_open"
              /\ journal'.index[o].at = "index_open"
              /\ journal'.index[o].call.name # "remove_entry") =>
                 IF \E i \in 1..Len(journal.index[o].entries) :
                        journal.index[o].entries[i].filename
                            = journal'.index[o].call.filename
                 THEN /\ Len(journal'.index[o].entries) = Len(journal.index[o].entries)
                      /\ \A i \in 1..Len(journal.index[o].entries) :
                             journal'.index[o].entries[i] =
                                 IF journal.index[o].entries[i].filename
                                        = journal'.index[o].call.filename
                                 THEN [filename |-> journal'.index[o].call.filename,
                                       version |-> journal'.index[o].call.version]
                                 ELSE journal.index[o].entries[i]
                 ELSE journal'.index[o].entries =
                          Append(journal.index[o].entries,
                                 [filename |-> journal'.index[o].call.filename,
                                  version |-> journal'.index[o].call.version])]_vars

\* an add_entry for the filename of the first of two entries has returned:
\* the new metadata stands first and the file holds both entries
C29_Witness ==
    \E o \in IndexObjects :
        /\ journal.index[o].at = "idle"
        /\ journal.last = o
        /\ journal.index[o].call.name \in {"add_entry", "write_entry"}
        /\ journal.index[o].call.existing
        /\ Len(journal.index[o].entries) = 2
        /\ journal.index[o].entries[1] =
               [filename |-> journal.index[o].call.filename,
                version |-> journal.index[o].call.version]
        /\ journal.index[o].call.version = MaxVersion
        /\ journal.index_file.entries = journal.index[o].entries

----------------------------------------------------------------------------
(* JournalRetriever.retrieve (src/fda/journal/retriever.py) and             *)
(* JournalIndex.search (src/fda/journal/index.py).  Texts are sequences of  *)
(* characters; scores are integers: a relevance is the pair <<num, den>> of *)
(* the fraction the code computes, a recency is in units of 10^-5 and a     *)
(* combined score in units of 10^-4, the four places round() keeps.         *)

\* str.split(): the maximal runs without a blank
RECURSIVE split(_)
split(s) ==
    IF s = <<>> THEN <<>>
    ELSE IF Head(s) = " " THEN split(Tail(s))
    ELSE LET blanks == {i \in 1..Len(s) : s[i] = " "}
             n == IF blanks = {} THEN Len(s) + 1
                  ELSE CHOOSE i \in blanks : \A j \in blanks : i <= j
         IN  <<SubSeq(s, 1, n - 1)>> \o split(SubSeq(s, n, Len(s)))

\* " ".join(words)
RECURSIVE join(_)
join(words) ==
    IF words = <<>> THEN <<>>
    ELSE IF Len(words) = 1 THEN Head(words)
    ELSE Head(words) \o <<" ">> \o join(Tail(words))

\* set(a_list)
set(s) == {s[i] : i \in 1..Len(s)}

\* JournalIndex.search: the entries, in index order, that share a tag with
\* tags (if any tag is given) and whose summary or tags hold the keywords or
\* one word of them (if keywords are given)
search(entries, tags, keywords) ==
    LET matches(entry) ==
            /\ tags # <<>> => set(entry.tags) \cap set(tags) # {}
            /\ keywords # <<>> =>
                   LET keywords_lower == str_lower(keywords)
                       summary_lower == str_lower(entry.summary)
                       tags_text == str_lower(join(entry.tags))
                       text_to_search == summary_lower \o <<" ">> \o tags_text
                       keyword_words == split(keywords_lower)
                   IN  \/ contains(summary_lower, keywords_lower)
                       \/ contains(tags_text, keywords_lower)
                       \/ \E w \in 1..Len(keyword_words) :
                              contains(text_to_search, keyword_words[w])
    IN  SelectSeq(entries, matches)

\* _calculate_relevance_score as the fraction <<num, den>>: the mean of the
\* share of the query tags the entry has and of the better share of the query
\* words found in the summary or in the tags, over the parts the query has;
\* 1/2 without a query
_calculate_relevance_score(entry, query_tags, query_text) ==
    LET summary == str_lower(entry.summary)
        query_tag_set == set(query_tags)
        matching_tags == set(entry.tags) \cap query_tag_set
        query_words == split(str_lower(query_text))
        \* a word of a split has no blank: it is in the joined tags iff it is
        \* in one tag, in whatever order the set is joined
        matching_words == Cardinality({w \in 1..Len(query_words) :
                                           contains(summary, query_words[w])})
        tag_word_matches == Cardinality({w \in 1..Len(query_words) :
                                \E tag \in set(entry.tags) :
                                    contains(str_lower(tag), query_words[w])})
        best == IF matching_words >= tag_word_matches THEN matching_words
                ELSE tag_word_matches
        tn == IF query_tags # <<>> THEN Cardinality(matching_tags) ELSE 0
        td == IF query_tags # <<>> THEN Cardinality(query_tag_set) ELSE 1
        bn == IF query_words # <<>> THEN best ELSE 0
        bd == IF query_words # <<>> THEN Len(query_words) ELSE 1
        parts == (IF query_tags # <<>> THEN 1 ELSE 0) + (IF query_text # <<>> THEN 1 ELSE 0)
    IN  IF parts > 0 THEN <<tn * bd + bn * td, td * bd * parts>>
        ELSE <<1, 2>>

\* config.py: the weights in tenths, the decay rates in hundredths per day
\* (DECAY_RATES.get(setting, DECAY_RATES["medium"]))
RELEVANCE_WEIGHT == 6
RECENCY_WEIGHT == 4
DECAY_RATES(setting) ==
    CASE setting = "fast" -> 10
      [] setting = "slow" -> 1
      [] OTHER -> 5

\* math.exp(-x) in units of 10^-5, x given in hundredths, for the products
\* of rate and age the model's entries have
exp_neg(x) ==
    CASE x = 0 -> 100000
      [] x = 1 -> 99005
      [] x = 5 -> 95123
      [] x = 10 -> 90484
      [] x = 30 -> 74082
      [] x = 150 -> 22313
      [] x = 300 -> 4979

\* _calculate_recency_score: 0.5 for a missing or unreadable created_at,
\* else exp(-decay_rate * age_days) held into [0, 1].  An entry's created_at
\* is "iso" or "" (missing or unreadable); age_days is the whole days from
\* created_at to datetime.now()
_calculate_recency_score(entry) ==
    IF entry.created_at = "" THEN 50000
    ELSE IF entry.age_days <= 0 THEN 100000
    ELSE exp_neg(DECAY_RATES(entry.relevance_decay) * entry.age_days)

\* round(RELEVANCE_WEIGHT * relevance + RECENCY_WEIGHT * recency, 4)
combined_score(relevance, recency) ==
    LET n == 100000 * RELEVANCE_WEIGHT * relevance[1] + RECENCY_WEIGHT * recency * relevance[2]
        d == 100 * relevance[2]
    IN  (2 * n + d) \div (2 * d)

\* a ranking that sorts ascending and turns the list round
rank_reversed(scored_entries) ==
    LET up == sort(scored_entries,
                   [i \in 1..Len(scored_entries) |-> <<scored_entries[i].combined_score>>])
    IN  [i \in 1..Len(up) |-> up[Len(up) + 1 - i]]

\* scored_entries.sort(key=combined_score, reverse=True): descending, equal
\* scores in the order they had
rank(scored_entries) ==
    sort(scored_entries,
         [i \in 1..Len(scored_entries) |-> <<0 - scored_entries[i].combined_score>>])

\* the candidates of retrieve: the search result for a query, else every entry
candidates(entries, query_tags, query_text) ==
    IF query_tags # <<>> \/ query_text # <<>>
    THEN search(entries, query_tags, query_text)
    ELSE entries

\* JournalRetriever.retrieve: score the candidates, rank, cut at top_n
retrieve_entries(entries, query_tags, query_text, top_n) ==
    LET cands == candidates(entries, query_tags, query_text)
        scored_entries ==
            [i \in 1..Len(cands) |->
                [filename |-> cands[i].filename,
                 tags |-> cands[i].tags,
                 summary |-> cands[i].summary,
                 created_at |-> cands[i].created_at,
                 age_days |-> cands[i].age_days,
                 relevance_decay |-> cands[i].relevance_decay,
                 combined_score |->
                     combined_score(_calculate_relevance_score(cands[i], query_tags, query_text),
                                    _calculate_recency_score(cands[i]))]]
        ranked == rank(scored_entries)
    IN  IF cands = <<>> THEN <<>>
        ELSE SubSeq(ranked, 1, IF top_n < Len(ranked) THEN top_n ELSE Len(ranked))

\* the texts of the model
tag_k == <<"k">>
tag_s == <<"s">>
text_Ks_m == <<"K", "s", " ", "m">>
text_sf == <<"s", "f">>

\* what an index entry can be, but for its filename
EntryPool ==
    {[tags |-> <<tag_k>>, summary |-> text_Ks_m, created_at |-> "iso", age_days |-> 1,
      relevance_decay |-> "medium"],
     [tags |-> <<tag_s>>, summary |-> text_sf, created_at |-> "iso", age_days |-> 30,
      relevance_decay |-> "fast"],
     [tags |-> <<tag_k, tag_s>>, summary |-> text_sf, created_at |-> "", age_days |-> 0,
      relevance_decay |-> "slow"],
     [tags |-> <<>>, summary |-> text_Ks_m, created_at |-> "iso", age_days |-> 30,
      relevance_decay |-> "unknown"]}

MaxEntries == 3     \* entries in the index
MaxTopN == 2        \* top_n from 0..MaxTopN

QueryTags == {<<>>, <<tag_k>>, <<tag_s, tag_k>>}
QueryTexts == {<<>>, <<"m">>, <<"S", "f", " ", "k">>}

\* the index the retriever loaded: any entries of the pool, each under its
\* own filename (C29)
IndexContents ==
    UNION {{[i \in 1..n |->
                [filename |-> i, tags |-> c[i].tags, summary |-> c[i].summary,
                 created_at |-> c[i].created_at, age_days |-> c[i].age_days,
                 relevance_decay |-> c[i].relevance_decay]] :
            c \in [1..n -> EntryPool]} : n \in 0..MaxEntries}

NoQuery == [at |-> "idle", query_tags |-> <<>>, query_text |-> <<>>, top_n |-> 0,
            result |-> <<>>]

InitRetrieve ==
    /\ InitBus({})
    /\ state = init_db
    /\ scheduler = Scheduler_init
    /\ \E entries \in IndexContents :
           journal = [Journal_init EXCEPT
               !.index_file = [kind |-> "json", entries |-> entries, count |-> Len(entries)],
               !.index["i1"].entries = entries]
    /\ \E query_tags \in QueryTags, query_text \in QueryTexts, top_n \in 0..MaxTopN :
           loop = [t \in AllThreads |->
                      IF t = "t1"
                      THEN [NoQuery EXCEPT !.query_tags = query_tags,
                                           !.query_text = query_text, !.top_n = top_n]
                      ELSE NoLoop]

\* a caller's retrieve(query_tags, query_text, top_n) on the loaded index
retrieve(t) ==
    /\ loop[t].at = "idle"
    /\ loop' = [loop EXCEPT
           ![t].at = "returned",
           ![t].result = retrieve_entries(journal.index["i1"].entries, loop[t].query_tags,
                                          loop[t].query_text, loop[t].top_n)]
    /\ UNCHANGED <<file, lock, pc, op, buf, ret, now, nextId, threads, visibleAt, sentBefore,
                   state, scheduler, journal>>

NextRetrieve == retrieve("t1")

SpecRetrieve == InitRetrieve /\ [][NextRetrieve]_vars

\* C30: retrieve returns at most top_n entries, every one an entry of the
\* candidate set (the search result when tags or text are given, else all
\* index entries) and none twice, in non-increasing order of combined
\* score, two of equal score in the order the candidates have
C30_RetrieveRanked ==
    loop["t1"].at = "returned" =>
        LET result == loop["t1"].result
            cands == candidates(journal.index["i1"].entries, loop["t1"].query_tags,
                                loop["t1"].query_text)
            position(r) == CHOOSE i \in 1..Len(cands) : cands[i].filename = r.filename
        IN  /\ Len(result) <= loop["t1"].top_n
            /\ \A k \in 1..Len(result) :
                   \E i \in 1..Len(cands) :
                       /\ cands[i].filename = result[k].filename
                       /\ cands[i].tags = result[k].tags
                       /\ cands[i].summary = result[k].summary
            /\ \A k, l \in 1..Len(result) :
                   k < l =>
                       /\ result[k].filename # result[l].filename
                       /\ result[k].combined_score >= result[l].combined_score
                       /\ result[k].combined_score = result[l].combined_score =>
                              position(result[k]) < position(result[l])

\* a query with tags returned the entries 2 and 3, of equal score, in index
\* order, and the cut at top_n = 2 dropped a candidate
C30_Witness ==
    /\ loop["t1"].at = "returned"
    /\ loop["t1"].query_tags # <<>>
    /\ Len(loop["t1"].result) = 2
    /\ loop["t1"].top_n = 2
    /\ loop["t1"].result[1].combined_score = loop["t1"].result[2].combined_score
    /\ loop["t1"].result[1].filename = 2
    /\ loop["t1"].result[2].filename = 3
    /\ Len(candidates(journal.index["i1"].entries, loop["t1"].query_tags,
                      loop["t1"].query_text)) > Len(loop["t1"].result)

----------------------------------------------------------------------------
(* The Executor's command history (src/fda/executor_agent.py): what         *)
(* run_command and run_claude_code do to self.command_history.  An entry    *)
(* is kept as its timestamp, the number of the call that made it.           *)

MaxHistoryCalls == 102      \* calls of run_command / run_claude_code in a run

\* the Executor object: command_history, the calls so far that recorded an
\* entry, and what the last call returned
HistoryExecutor ==
    [name |-> "Executor", at |-> "idle", command_history |-> <<>>, calls |-> 0,
     returned |-> "none"]

\* datetime.now() of the call being made
history_entry(t) == [timestamp |-> loop[t].calls + 1]

\* a call that records an entry returns
history_step(t, command_history) ==
    /\ loop[t].calls < MaxHistoryCalls
    /\ loop' = [loop EXCEPT ![t] =
           [@ EXCEPT !.calls = @ + 1,
                     !.command_history = command_history,
                     !.returned = "result"]]
    /\ LoopOnly
    /\ UNCHANGED state

\* run_command on a dangerous command: the blocked result is appended and
\* returned at once (lines 860-873)
run_command_blocked(t) ==
    history_step(t, Append(loop[t].command_history, history_entry(t)))

\* run_command on any other command: subprocess.run returned or raised
\* (TimeoutExpired, another exception); the output is appended and the
\* history cut to its last entries (lines 877-928)
run_command_ran(t) ==
    history_step(t, keep_history(Append(loop[t].command_history, history_entry(t))))

\* run_claude_code when subprocess.run returned: the entry is appended
\* (lines 433-440)
run_claude_code_ran(t) ==
    history_step(t, Append(loop[t].command_history, history_entry(t)))

\* run_claude_code when subprocess.run raised (timeout, no CLI, another
\* exception): nothing is recorded (lines 459-481)
run_claude_code_raised(t) ==
    /\ loop[t].name = "Executor"
    /\ loop' = [loop EXCEPT ![t].returned = "error"]
    /\ LoopOnly
    /\ UNCHANGED state

InitHistory ==
    /\ InitBus({})
    /\ loop = [t \in AllThreads |-> IF t = "t1" THEN HistoryExecutor ELSE NoLoop]
    /\ state = init_db
    /\ scheduler = Scheduler_init
    /\ journal = Journal_init

NextHistory ==
    \/ run_command_blocked("t1")
    \/ run_command_ran("t1")
    \/ run_claude_code_ran("t1")
    \/ run_claude_code_raised("t1")

SpecHistory == InitHistory /\ [][NextHistory]_vars

\* C31: the command history is a ring of the last 100 entries: it never
\* holds more than 100 entries, and what it holds are the most recent
\* entries recorded, in their order
C31_HistoryRing ==
    LET command_history == loop["t1"].command_history
        recorded == [i \in 1..loop["t1"].calls |-> [timestamp |-> i]]
    IN  /\ Len(command_history) <= HistoryLimit
        /\ Len(command_history) <= Len(recorded)
        /\ command_history =
               SubSeq(recorded, Len(recorded) - Len(command_history) + 1, Len(recorded))
        /\ Len(recorded) <= HistoryLimit => command_history = recorded

----------------------------------------------------------------------------
(* ExecutorAgent.pick_up_task (src/fda/executor_agent.py) applied to any    *)
(* small tasks table                                                       *)

PickTasks == 3      \* rows of the tasks table

TaskStatuses == {"pending", "in_progress", "completed"}

\* the tables add_task can have built: row k was added at time k
TaskTables ==
    UNION {{[k \in 1..n |->
                [id |-> k, status |-> c[k].status, owner |-> "unassigned",
                 priority |-> c[k].priority, created_at |-> k, updated_at |-> k]] :
            c \in [1..n -> [status : TaskStatuses, priority : {"high", "medium", "low"}]]} :
           n \in 0..PickTasks}

\* the Executor object that calls pick_up_task; before is the tasks table
\* found by the call, result what the call returns
PickUpExecutor ==
    [name |-> "Executor", at |-> "idle", before |-> <<>>, result |-> NoTask]

\* pick_up_task up to update_task: None without a pending task, else the
\* first of the sorted tasks becomes in_progress with self.name as owner
pick_up_task(t) ==
    /\ loop[t].at = "idle"
    /\ IF sorted_tasks(state) = <<>>
       THEN /\ loop' = [loop EXCEPT ![t] =
                   [@ EXCEPT !.at = "returned", !.before = state.tasks, !.result = NoTask]]
            /\ UNCHANGED state
       ELSE /\ loop' = [loop EXCEPT ![t] =
                   [@ EXCEPT !.at = "logging", !.before = state.tasks,
                             !.result = sorted_tasks(state)[1]]]
            /\ state' = update_task(state, sorted_tasks(state)[1].id,
                                    [status |-> "in_progress", owner |-> loop[t].name], now)
    /\ UNCHANGED <<file, lock, pc, op, buf, ret, now, nextId, threads, scheduler, journal,
                   visibleAt, sentBefore>>

\* pick_up_task: log_to_journal has returned, the task is returned
pick_up_returned(t) ==
    /\ loop[t].at = "logging"
    /\ journal.last # "none"
    /\ journal_idle
    /\ loop' = [loop EXCEPT ![t].at = "returned"]
    /\ LoopOnly

InitPickUp ==
    /\ file = _initialize_bus
    /\ lock = NoThread
    /\ threads = {}
    /\ pc = [t \in AllThreads |-> "idle"]
    /\ op = [t \in AllThreads |-> IdleOp]
    /\ buf = [t \in AllThreads |-> NoBuffer]
    /\ ret = [t \in AllThreads |-> NoRet]
    /\ now = PickTasks + 1
    /\ nextId = 1
    /\ visibleAt = {}
    /\ sentBefore = {}
    /\ loop = [t \in AllThreads |-> IF t = "t1" THEN PickUpExecutor ELSE NoLoop]
    /\ \E tasks \in TaskTables : state = [init_db EXCEPT !.tasks = tasks]
    /\ scheduler = Scheduler_init
    /\ journal = Journal_init

\* pick_up_task with its log_to_journal (write_entry) between the update and
\* the return
NextPickUp ==
    \/ pick_up_task("t1")
    \/ /\ loop["t1"].at = "logging"
       /\ journal.last = "none"
       /\ \/ \E filename \in Filenames : write_text_open("i1", filename, 1)
          \/ write_text_close("i1")
          \/ write_entry_index("i1")
          \/ save_close("i1")
    \/ pick_up_returned("t1")

SpecPickUp == InitPickUp /\ [][NextPickUp]_vars

\* C32: once pick_up_task has updated the table, with a pending task in the
\* table it found, exactly one task differs: a pending task that no pending
\* task precedes in priority (high, medium, low) and, among those of its
\* priority, none in age; it is in_progress, owned by the Executor and the
\* task returned.  Without a pending task nothing changes and None is
\* returned.
C32_PickUpTask ==
    loop["t1"].at \in {"logging", "returned"} =>
        LET before == loop["t1"].before
            after == state.tasks
            result == loop["t1"].result
            pending == {k \in 1..Len(before) : before[k].status = "pending"}
            level(k) == CASE before[k].priority = "high" -> 0
                          [] before[k].priority = "medium" -> 1
                          [] before[k].priority = "low" -> 2
        IN  /\ Len(after) = Len(before)
            /\ IF pending = {}
               THEN result = NoTask /\ after = before
               ELSE \E k \in pending :
                       /\ \A j \in pending :
                              \/ level(k) < level(j)
                              \/ level(k) = level(j) /\ before[k].created_at <= before[j].created_at
                       /\ result = before[k]
                       /\ after[k].status = "in_progress"
                       /\ after[k].owner = "Executor"
                       /\ after[k].id = before[k].id
                       /\ after[k].priority = before[k].priority
                       /\ after[k].created_at = before[k].created_at
                       /\ \A j \in 1..Len(before) : j # k => after[j] = before[j]

\* pick_up_task returned the older of two pending high tasks although a
\* pending low task is older still
C32_Witness ==
    /\ loop["t1"].at = "returned"
    /\ Len(loop["t1"].before) = 3
    /\ \A k \in 1..3 : loop["t1"].before[k].status = "pending"
    /\ loop["t1"].before[1].priority = "low"
    /\ loop["t1"].before[2].priority = "high"
    /\ loop["t1"].before[3].priority = "high"
    /\ loop["t1"].result.id = 2
    /\ state.tasks[2].status = "in_progress"

----------------------------------------------------------------------------
(* Messages of any type in the event loop (SpecLoop)                        *)

\* message m is marked read in the bus file
read_in_file(bus_file, m) ==
    \E k \in 1..Len(bus_file.msgs) : bus_file.msgs[k].id = m.id /\ bus_file.msgs[k].read

\* C33: every message the loop drained is marked read, whatever its type: a
\* message leaves the batch the loop works on only when the bus file has it
\* marked read (else the next poll delivers it again), and a message of a
\* type the agent does not handle leaves it without a reply being sent
C33_DrainedMarked ==
    [][\A t \in AllThreads :
          (/\ loop[t].at \in {"for", "marking", "replying", "replying_error"}
           /\ loop[t].inbox # <<>>
           /\ loop'[t].inbox # loop[t].inbox) =>
              /\ json_load_ok(file') => read_in_file(file', Head(loop[t].inbox))
              /\ loop'[t].inbox = Tail(loop[t].inbox)
              /\ Head(loop[t].inbox).type \notin RequestTypes(loop[t].name) =>
                     nextId' = nextId]_vars

----------------------------------------------------------------------------
(* MessageBus.__init__ (src/fda/comms/message_bus.py, lines 72-90): two     *)
(* callers construct their bus object on a path where no file exists yet    *)

ConstructMsgs == 2

\* a construction step touches the file and the caller's position only
ConstructOnly ==
    UNCHANGED <<lock, op, buf, ret, now, nextId, threads, visibleAt, sentBefore, loop, state,
                scheduler, journal>>

\* __init__: "if not self.bus_path.exists()"
construct_check(t) ==
    /\ pc[t] = "new"
    /\ pc' = [pc EXCEPT ![t] = IF file.kind = "missing" THEN "init_open" ELSE "idle"]
    /\ UNCHANGED file
    /\ ConstructOnly

\* _initialize_bus: open(self.bus_path, "w") creates the file or empties it
init_open(t) ==
    /\ pc[t] = "init_open"
    /\ file' = [kind |-> "empty", msgs |-> <<>>]
    /\ pc' = [pc EXCEPT ![t] = "init_close"]
    /\ ConstructOnly

\* _initialize_bus: json.dump and the close of the "with" block write the
\* empty bus at offset 0; over a text another handle wrote in between, the
\* result is that text with its beginning overwritten
init_close(t) ==
    /\ pc[t] = "init_close"
    /\ file' = IF file.kind = "json" /\ file.msgs # <<>>
               THEN [kind |-> "partial", msgs |-> <<>>]
               ELSE _initialize_bus
    /\ pc' = [pc EXCEPT ![t] = "idle"]
    /\ ConstructOnly

InitConstruct ==
    /\ file = [kind |-> "missing", msgs |-> <<>>]
    /\ lock = NoThread
    /\ threads = {"t1", "t2"}
    /\ pc = [t \in AllThreads |-> IF t \in {"t1", "t2"} THEN "new" ELSE "idle"]
    /\ op = [t \in AllThreads |-> IdleOp]
    /\ buf = [t \in AllThreads |-> NoBuffer]
    /\ ret = [t \in AllThreads |-> NoRet]
    /\ now = 0
    /\ nextId = 1
    /\ visibleAt = {}
    /\ sentBefore = {}
    /\ loop = [t \in AllThreads |-> NoLoop]
    /\ state = init_db
    /\ scheduler = Scheduler_init
    /\ journal = Journal_init

NextConstruct ==
    \E t \in {"t1", "t2"} :
        \/ construct_check(t)
        \/ init_open(t)
        \/ init_close(t)
        \/ /\ nextId <= ConstructMsgs
           /\ send_call(t, FDA, EXECUTOR, TASK, "medium", NoId)
           /\ UNCHANGED <<loop, state>>
        \/ _acquire_lock(t)
        \/ send_write(t)
        \/ _release_lock_unlock(t)
        \/ _release_lock_close(t)

SpecConstruct == InitConstruct /\ [][NextConstruct]_vars

\* C34: constructing a MessageBus never discards messages: no step of a
\* construction (the existence check, the open for writing, the dump and
\* close of _initialize_bus) changes a bus file that holds messages
C34_ConstructKeeps ==
    [][\A t \in {"t1", "t2"} :
          (/\ pc[t] \in {"new", "init_open", "init_close"}
           /\ pc'[t] # pc[t]
           /\ json_load_ok(file)
           /\ file.msgs # <<>>) => file' = file]_vars

----------------------------------------------------------------------------
(* Several JournalIndex objects on one index file: the writers of two       *)
(* agents (SpecJournalShared), the writer and the retriever of one agent    *)
(* (SpecReadWrites).  Each object loaded the index when it was constructed  *)
(* (base_agent.py, lines 67-68).                                            *)

\* write_entry calls of the two writers, one call after the other
NextJournalShared ==
    \/ \E o \in IndexObjects, filename \in Filenames, version \in Versions :
           write_text_open(o, filename, version)
    \/ \E o \in IndexObjects : write_text_close(o)
    \/ \E o \in IndexObjects : write_entry_index(o)
    \/ \E o \in IndexObjects : save_close(o)

SpecJournalShared == InitJournal /\ [][NextJournalShared]_vars

\* C35: no index entry is lost to another writer: whenever no write_entry is
\* under way, the persisted index has an entry for every entry file written
C35_NoEntryLost ==
    (journal_idle /\ journal.index_file.kind = "json") =>
        \A f \in Filenames :
            journal.entry_files[f].kind = "complete" =>
                \E k \in 1..Len(journal.index_file.entries) :
                    journal.index_file.entries[k].filename = f

\* the agent whose writer is i1 and whose retriever is i2; written is the
\* writer's entries when search_journal was called, candidates what the
\* retriever took as candidates
JournalAgent ==
    [name |-> "FDA", at |-> "idle", written |-> <<>>, candidates |-> <<>>]

\* search_journal("") after the agent's log_to_journal calls returned:
\* retrieve takes self.index.entries, the retriever's own list
search_journal(t) ==
    /\ loop[t].name = "FDA"
    /\ journal_idle
    /\ loop' = [loop EXCEPT ![t] =
           [@ EXCEPT !.at = "searched",
                     !.written = journal.index["i1"].entries,
                     !.candidates = candidates(journal.index["i2"].entries, <<>>, <<>>)]]
    /\ LoopOnly

InitReadWrites ==
    /\ InitBus({})
    /\ loop = [t \in AllThreads |-> IF t = "t1" THEN JournalAgent ELSE NoLoop]
    /\ state = init_db
    /\ scheduler = Scheduler_init
    /\ journal = Journal_init

NextReadWrites ==
    \/ \E filename \in Filenames, version \in Versions :
           write_text_open("i1", filename, version)
    \/ write_text_close("i1")
    \/ write_entry_index("i1")
    \/ save_close("i1")
    \/ search_journal("t1")

SpecReadWrites == InitReadWrites /\ [][NextReadWrites]_vars

\* C36: an agent reads its own journal writes: the candidates of a
\* search_journal that matches every entry hold each entry whose
\* log_to_journal had returned when the search was called
C36_ReadYourWrites ==
    loop["t1"].at = "searched" =>
        \A i \in 1..Len(loop["t1"].written) :
            \E k \in 1..Len(loop["t1"].candidates) :
                loop["t1"].candidates[k].filename = loop["t1"].written[i].filename

----------------------------------------------------------------------------
(* SpecReply: requests of every type a peer dispatches, and its replies     *)

ReplyMsgs == 1

NextReply ==
    \/ /\ nextId <= ReplyMsgs
       /\ \E msg_type \in RequestTypes(loop["t2"].name) :
             send_message("t1", "FDA", loop["t2"].name, msg_type, "medium")
       /\ UNCHANGED <<loop, state>>
    \/ \E t \in AllThreads :
        \/ agent_while(t)
        \/ agent_poll(t)
        \/ agent_polled(t)
        \/ agent_for(t)
        \/ agent_dispatch(t)
        \/ agent_replied(t)
        \/ agent_replied_error(t)
        \/ _acquire_lock(t)
        \/ send_lookup(t)
        \/ send_write(t)
        \/ mark_read_write(t)
        \/ get_pending_read(t)
        \/ _release_lock_unlock(t)
        \/ _release_lock_close(t)
    \/ (now < MaxClock /\ Tick)

SpecReply == InitLoop /\ [][NextReply]_vars

\* C37: every reply in the bus, those of the except clause included, has the
\* result type paired with the type of the request it answers
C37_ReplyTypePaired ==
    json_load_ok(file) =>
        \A k \in 1..Len(file.msgs) :
            file.msgs[k].reply_to # NoId =>
                \E j \in 1..Len(file.msgs) :
                    /\ file.msgs[j].id = file.msgs[k].reply_to
                    /\ file.msgs[k].type = ResultType(file.msgs[j].type)

----------------------------------------------------------------------------
(* SpecDelegate: the Director's ask while the event loop of a peer runs     *)
(* and handles messages                                                     *)

\* messages the Director's process sends in a run
DelegateMsgs == 2

\* clock readings of a run
DelegateClock == 2

\* the event loop of the peer of thread t has been started and has not ended
loop_alive(t) == loop[t].at \notin {"none", "start", "stopped"}

InitDelegate ==
    /\ InitBus({"t1", "t2"})
    /\ \E name \in PeerNames :
        /\ loop = [t \in AllThreads |->
                    CASE t = "t1" -> DirectorObject
                      [] t = "t2" -> [name |-> name, at |-> "top", inbox |-> <<>>,
                                      _running |-> TRUE]
                      [] OTHER -> NoLoop]
        /\ state = update_agent_status(init_db, lower(name), "running")
    /\ scheduler = Scheduler_init
    /\ journal = Journal_init

NextDelegate ==
    \/ /\ nextId <= DelegateMsgs
       /\ loop["t1"].at = "idle"
       /\ \E msg_type \in {EXECUTE_REQUEST, SEARCH_REQUEST} :
             send_message("t1", "FDA", loop["t2"].name, msg_type, "medium")
       /\ UNCHANGED <<loop, state>>
    \/ /\ nextId <= DelegateMsgs
       /\ \E question \in Questions : ask("t1", question)
    \/ ask_searched("t1")
    \/ ask_search_waited("t1")
    \/ ask_claude_code("t1")
    \/ ask_claude_sent("t1")
    \/ ask_claude_waited("t1")
    \/ ask_chat("t1")
    \/ ask_done("t1")
    \/ agent_while("t2")
    \/ agent_poll("t2")
    \/ agent_polled("t2")
    \/ agent_for("t2")
    \/ agent_dispatch("t2")
    \/ agent_replied("t2")
    \/ agent_replied_error("t2")
    \/ \E t \in {"t1", "t2"} :
        \/ _acquire_lock(t)
        \/ send_lookup(t)
        \/ send_write(t)
        \/ mark_read_write(t)
        \/ get_pending_read(t)
        \/ wait_read(t)
        \/ wait_sleep(t)
        \/ wait_return_none(t)
        \/ _release_lock_unlock(t)
        \/ _release_lock_close(t)
    \/ (now < DelegateClock /\ Tick)

SpecDelegate == InitDelegate /\ [][NextDelegate]_vars

\* C38: the Director delegates whenever the peer's event loop is alive: a
\* file search question is sent to the Librarian, and a question that goes
\* to Claude Code is sent to the Executor, also while the peer handles
\* another message
C38_DelegatesWhenAlive ==
    [][/\ ( /\ loop["t1"].at = "idle"
            /\ loop'["t1"].at # "idle"
            /\ loop'["t1"].question.file_search
            /\ loop["t2"].name = "Librarian"
            /\ loop_alive("t2") ) => loop'["t1"].at = "searching"
       /\ ( /\ loop["t1"].at = "claude_code"
            /\ loop'["t1"].at # "claude_code"
            /\ ~loop["t1"].question.is_simple_query
            /\ loop["t1"].peer_result = "None"
            /\ loop["t2"].name = "Executor"
            /\ loop_alive("t2") ) => loop'["t1"].at = "claude_sent"]_vars

----------------------------------------------------------------------------
(* SpecRequest: the Director's ask, and replies of the peers to its         *)
(* requests                                                                 *)

\* messages sent in a run
RequestMsgs == 2

\* clock readings of a run
RequestClock == 2

\* both peers are running; t2 is a peer's thread that sends results
InitRequest ==
    /\ InitBus({"t1", "t2"})
    /\ loop = [t \in AllThreads |-> IF t = "t1" THEN DirectorObject ELSE NoLoop]
    /\ state = [init_db EXCEPT !.agent_status["librarian"] = "running",
                               !.agent_status["executor"] = "running"]
    /\ scheduler = Scheduler_init
    /\ journal = Journal_init

NextRequest ==
    \/ /\ nextId <= RequestMsgs
       /\ \E question \in Questions : ask("t1", question)
    \/ ask_searched("t1")
    \/ ask_search_waited("t1")
    \/ ask_claude_code("t1")
    \/ ask_claude_sent("t1")
    \/ ask_claude_waited("t1")
    \/ ask_chat("t1")
    \/ ask_done("t1")
    \/ /\ nextId <= RequestMsgs
       /\ \E k \in 1..Len(file.msgs) :
            /\ file.msgs[k].type \in {SEARCH_REQUEST, CLAUDE_CODE_REQUEST}
            /\ send_result("t2", file.msgs[k].to, file.msgs[k].from,
                           ResultType(file.msgs[k].type), file.msgs[k].id)
       /\ UNCHANGED <<loop, state>>
    \/ \E t \in {"t1", "t2"} :
        \/ _acquire_lock(t)
        \/ send_lookup(t)
        \/ send_write(t)
        \/ mark_read_write(t)
        \/ wait_read(t)
        \/ wait_sleep(t)
        \/ wait_return_none(t)
        \/ _release_lock_unlock(t)
        \/ _release_lock_close(t)
    \/ (now < RequestClock /\ Tick)

SpecRequest == InitRequest /\ [][NextRequest]_vars

\* C39: the reply that request_file_search obtained through
\* wait_for_response is marked read in the bus once the method has returned
C39_ReplyMarkedRead ==
    ( /\ loop["t1"].at = "claude_code"
      /\ loop["t1"].peer_result = "response"
      /\ json_load_ok(file) ) =>
        \A k \in 1..Len(file.msgs) :
            file.msgs[k].id = ret["t1"].msgs[1].id => file.msgs[k].read

----------------------------------------------------------------------------
(* SpecRerun: run() is called again on a Scheduler whose run() has returned *)

\* run, lines 221-222, called after an earlier run() returned
run_again ==
    /\ scheduler.run_pc = "returned"
    /\ scheduler' = [scheduler EXCEPT !._running = TRUE, !._stop_event = FALSE,
                                      !.run_pc = "lock"]
    /\ SchedOnly

NextRerun ==
    \/ register_daily_checkin
    \/ register_task("calendar_watcher")
    \/ \E name \in TaskNames : unregister_task(name)
    \/ \E name \in OneTimeNames : register_one_time(name)
    \/ run_call
    \/ run_lock
    \/ run_task
    \/ run_return
    \/ run_again
    \/ stop_call
    \/ stop_lock
    \/ stop_return
    \/ \E name \in OneTimeNames :
        \/ timer_fire(name)
        \/ timer_run_task(name)
        \/ callback_start(name)
        \/ callback_end(name)
        \/ timer_cleanup(name)

SpecRerun == InitSched /\ [][NextRerun]_vars

\* C40: a run() called after stop() has returned (stop() has returned and
\* the stop event is clear again) does not raise and does not block in its
\* start-up, and once it waits for the stop event every one-time task still
\* registered has a started timer
C40_RunAgain ==
    (scheduler.stop_pc = "returned" /\ ~scheduler._stop_event) =>
        /\ scheduler.run_pc \notin {"raised", "blocked"}
        /\ scheduler.run_pc = "wait" =>
               \A name \in OneTimeNames :
                   scheduler.tasks[name] = "one_time" =>
                       /\ name \in scheduler.timers
                       /\ scheduler.timer[name] \notin {"created", "cancelled"}

====
